---- MODULE Spec2Model ----
(***************************************************************************)
(* A model of the gachi-amm bonding-curve program (programs/amm): the fee  *)
(* engine, the segmented curve walk, the swap instruction with its         *)
(* graduation cap, the fee claims, the migration lifecycle and the         *)
(* cashback ledger.                                                        *)
(*                                                                         *)
(* Amounts are u64 in the program.  TLC's integers are 32 bits wide, so    *)
(* every amount of the model stays far below 2^31 / FEE_DENOMINATOR and    *)
(* the u64/u128 overflow branches of the checked arithmetic are never      *)
(* taken inside the bounds; the underflow branches (safe_sub) are          *)
(* modelled, since they are reachable with small numbers.                  *)
(***************************************************************************)
EXTENDS Integers, Sequences, FiniteSets, TLC

VARIABLES
    params,       \* ConfigParameters handed to create_config (fee engine specification)
    config_state, \* "none" | "created" | "rejected": the outcome of handle_create_config
    fee_args,     \* arguments of the last get_fee_on_amount call
    fee_ret,      \* its result
    cfg,          \* the Config account of the curve
    curve,        \* the BondingCurve account
    base_vault,   \* token balance of the base vault
    quote_vault,  \* token balance of the quote vault
    now,          \* Clock::get()?.unix_timestamp
    swaps,        \* number of successful swaps so far (bounded)
    last,         \* outcome of the last instruction on the curve
    cashback,     \* the CashbackAccount
    wsol_vault,   \* token balance of the cashback account's WSOL vault
    cb_last,      \* outcome of the last cashback instruction
    fee_type,     \* the curve's fee-type selector
    meme_fee_basis_points, \* the Config's meme/community fee rate
    ft_last,      \* outcome of the last set_fee_type instruction
    md_args,      \* arguments of the safe_mul_div_cast_u64 call
    md_ret,       \* its result
    sm_args,      \* operation and operands of the SafeMath call
    sm_ret,       \* its result
    walk_args,    \* the curve state and the amounts handed to a curve walk
    walk_ret      \* what the walk returned

vars == << params, config_state, fee_args, fee_ret, cfg, curve, base_vault,
           quote_vault, now, swaps, last, cashback, wsol_vault, cb_last,
           fee_type, meme_fee_basis_points, ft_last, md_args, md_ret,
           sm_args, sm_ret, walk_args, walk_ret >>

fee_vars == << params, config_state, fee_args, fee_ret >>
curve_vars == << cfg, curve, base_vault, quote_vault, now, swaps, last >>
cashback_vars == << cashback, wsol_vault, cb_last >>
fee_type_vars == << fee_type, meme_fee_basis_points, ft_last >>
math_vars == << md_args, md_ret, sm_args, sm_ret, walk_args, walk_ret >>

----------------------------------------------------------------------------
(* Program constants *)

FEE_DENOMINATOR == 100000
MAX_FEE_BASIS_POINTS == 10000
MAX_CREATOR_FEE_BASIS_POINTS == 1000

CASHBACK_WOOD_BPS == 50
CASHBACK_BRONZE_BPS == 100
CASHBACK_SILVER_BPS == 125
CASHBACK_GOLD_BPS == 150
CASHBACK_PLATINUM_BPS == 175
CASHBACK_DIAMOND_BPS == 200
CASHBACK_CHAMPION_BPS == 250

NoTier == 255  \* Option<CashbackTier>::None (no cashback account passed)

----------------------------------------------------------------------------
(* Checked arithmetic: safe_mul_div_cast_u64 *)

MulDivDown(x, y, denominator) == (x * y) \div denominator

MulDivUp(x, y, denominator) == (x * y + denominator - 1) \div denominator

\* The function with its failures.  The widths are scaled: a u64 has WordBits
\* bits and a u128 twice as many, so that every overflow and every failed cast
\* is within reach of the arguments.
WordBits == 3
U64_MAX == 2 ^ WordBits - 1
U128_MAX == 2 ^ (2 * WordBits) - 1

MulDivErr(e) == [err |-> e, value |-> 0]

\* T::from_u128 that keeps the low bits of a result too wide for T
from_u128_Wrapping(result) == [err |-> "Ok", value |-> result % (U64_MAX + 1)]

\* T::from_u128(result).ok_or_else(TypeCastFailed), T being u64
from_u128(result) ==
    IF result <= U64_MAX THEN [err |-> "Ok", value |-> result]
    ELSE MulDivErr("TypeCastFailed")

\* SafeMath for an unsigned type of WordBits bits (checked_impl!): the checked_*
\* operation of the type, None turned into MathOverflow.  checked_shl and
\* checked_shr are None only for a shift amount of the bit width or more; below
\* it checked_shl is the wrapping shift, which drops the bits shifted out.
SafeOk(value) == [err |-> "Ok", value |-> value]

safe_add(a, v) == IF a + v > U64_MAX THEN MulDivErr("MathOverflow") ELSE SafeOk(a + v)

safe_sub(a, v) == IF a - v < 0 THEN MulDivErr("MathOverflow") ELSE SafeOk(a - v)

safe_mul(a, v) == IF a * v > U64_MAX THEN MulDivErr("MathOverflow") ELSE SafeOk(a * v)

safe_div(a, v) == IF v = 0 THEN MulDivErr("MathOverflow") ELSE SafeOk(a \div v)

safe_rem(a, v) == IF v = 0 THEN MulDivErr("MathOverflow") ELSE SafeOk(a % v)

safe_shl(a, v) ==
    IF v >= WordBits THEN MulDivErr("MathOverflow")
    ELSE SafeOk((a * 2 ^ v) % (U64_MAX + 1))

safe_shr(a, v) ==
    IF v >= WordBits THEN MulDivErr("MathOverflow") ELSE SafeOk(a \div 2 ^ v)

SafeMathOps == {"safe_add", "safe_sub", "safe_mul", "safe_div", "safe_rem", "safe_shl", "safe_shr"}

SafeMathCall(op, a, v) ==
    CASE op = "safe_add" -> safe_add(a, v)
      [] op = "safe_sub" -> safe_sub(a, v)
      [] op = "safe_mul" -> safe_mul(a, v)
      [] op = "safe_div" -> safe_div(a, v)
      [] op = "safe_rem" -> safe_rem(a, v)
      [] op = "safe_shl" -> safe_shl(a, v)
      [] OTHER -> safe_shr(a, v)

safe_mul_div_cast_u64(x, y, denominator, rounding) ==
    IF x * y > U128_MAX THEN MulDivErr("MathOverflow")
    ELSE IF rounding = "Up"
        THEN IF x * y + denominator > U128_MAX THEN MulDivErr("MathOverflow")
             ELSE IF x * y + denominator < 1 THEN MulDivErr("MathOverflow")
             ELSE IF denominator = 0 THEN MulDivErr("MathOverflow")
             ELSE from_u128((x * y + denominator - 1) \div denominator)
    ELSE IF denominator = 0 THEN MulDivErr("MathOverflow")
    ELSE from_u128((x * y) \div denominator)

----------------------------------------------------------------------------
(* Cashback tiers *)

Tiers == 0 .. 6

get_cashback_bps(tier) ==
    CASE tier = 0 -> CASHBACK_WOOD_BPS
      [] tier = 1 -> CASHBACK_BRONZE_BPS
      [] tier = 2 -> CASHBACK_SILVER_BPS
      [] tier = 3 -> CASHBACK_GOLD_BPS
      [] tier = 4 -> CASHBACK_PLATINUM_BPS
      [] tier = 5 -> CASHBACK_DIAMOND_BPS
      [] OTHER    -> CASHBACK_CHAMPION_BPS

\* cashback_tier.map(|tier| tier.get_cashback_bps()).unwrap_or(0)
CashbackBps(cashback_tier) ==
    IF cashback_tier = NoTier THEN 0 ELSE get_cashback_bps(cashback_tier)

----------------------------------------------------------------------------
(* ConfigParameters::validate: the checks on the fee rates and on         *)
(* migration_base_threshold (the quote mint, token type, decimals and      *)
(* virtual reserve checks concern fields outside the model)                *)

\* validate without the checks of the referral hierarchy
validate_NoHierarchy(p) ==
    LET other_fee_basis_points_sum ==
            p.l1_referral_fee_basis_points + p.l2_referral_fee_basis_points
            + p.l3_referral_fee_basis_points + p.creator_fee_basis_points
            + CASHBACK_CHAMPION_BPS
    IN  IF ~(p.fee_basis_points > other_fee_basis_points_sum)
            THEN "InvalidFeeBasisPoints"
        ELSE IF ~(p.creator_fee_basis_points <= MAX_CREATOR_FEE_BASIS_POINTS)
            THEN "InvalidCreatorTradingFeePercentage"
        ELSE IF ~(p.fee_basis_points <= MAX_FEE_BASIS_POINTS)
            THEN "InvalidAmmConfig"
        ELSE IF ~(p.migration_base_threshold > 0)
            THEN "InvalidAmmConfig"
        ELSE "Ok"

validate(p) ==
    LET other_fee_basis_points_sum ==
            p.l1_referral_fee_basis_points + p.l2_referral_fee_basis_points
            + p.l3_referral_fee_basis_points + p.creator_fee_basis_points
            + CASHBACK_CHAMPION_BPS
    IN  IF ~(p.fee_basis_points > other_fee_basis_points_sum)
            THEN "InvalidFeeBasisPoints"
        ELSE IF ~(p.l1_referral_fee_basis_points > p.l2_referral_fee_basis_points)
            THEN "InvalidAmmConfig"
        ELSE IF ~(p.l2_referral_fee_basis_points > p.l3_referral_fee_basis_points)
            THEN "InvalidAmmConfig"
        ELSE IF ~(p.creator_fee_basis_points <= MAX_CREATOR_FEE_BASIS_POINTS)
            THEN "InvalidCreatorTradingFeePercentage"
        ELSE IF ~(p.fee_basis_points <= MAX_FEE_BASIS_POINTS)
            THEN "InvalidAmmConfig"
        ELSE IF ~(p.migration_base_threshold > 0)
            THEN "InvalidAmmConfig"
        ELSE "Ok"

----------------------------------------------------------------------------
(* Config::get_fee_on_amount *)

ReferralFee(amount_in, has_referral, basis_points) ==
    IF has_referral THEN MulDivDown(amount_in, basis_points, FEE_DENOMINATOR) ELSE 0

HasReferral(has_l1, has_l2, has_l3) == has_l1 \/ has_l2 \/ has_l3

\* fee_basis_points.safe_sub(referee_discount_basis_points) when a referral is
\* active; -1 stands for the MathOverflow of the u16 subtraction
EffectiveBps(c, has_referral) ==
    IF has_referral
    THEN IF c.referee_discount_basis_points > c.fee_basis_points
         THEN -1
         ELSE c.fee_basis_points - c.referee_discount_basis_points
    ELSE c.fee_basis_points

\* TotalFee with the rate taken out of 10,000
TotalFee_OutOfTenThousand(amount_in, effective_bps) ==
    MulDivDown(amount_in, effective_bps, MAX_FEE_BASIS_POINTS)

TotalFee(amount_in, effective_bps) ==
    MulDivDown(amount_in, effective_bps, FEE_DENOMINATOR)

\* ProtocolFee with the cashback fee left out of the subtraction chain
ProtocolFee_DropsCashback(total_fee, l1, l2, l3, creator_fee, cashback_fee) ==
    total_fee - l1 - l2 - l3 - creator_fee

\* total_fee.safe_sub(l1)?.safe_sub(l2)?.safe_sub(l3)?.safe_sub(creator)?.safe_sub(cashback)?
\* a negative value stands for the MathOverflow of one of the subtractions
ProtocolFee(total_fee, l1, l2, l3, creator_fee, cashback_fee) ==
    total_fee - l1 - l2 - l3 - creator_fee - cashback_fee

NetAmount(amount_in, total_fee) == amount_in - total_fee

FeeErr(e) ==
    [ok |-> FALSE, err |-> e, amount |-> 0, l1_referral_fee |-> 0,
     l2_referral_fee |-> 0, l3_referral_fee |-> 0, creator_fee |-> 0,
     cashback_fee |-> 0, protocol_fee |-> 0]

get_fee_on_amount(c, amount_in, has_l1, has_l2, has_l3, cashback_tier) ==
    LET l1 == ReferralFee(amount_in, has_l1, c.l1_referral_fee_basis_points)
        l2 == ReferralFee(amount_in, has_l2, c.l2_referral_fee_basis_points)
        l3 == ReferralFee(amount_in, has_l3, c.l3_referral_fee_basis_points)
        cashback_fee == MulDivDown(amount_in, CashbackBps(cashback_tier), FEE_DENOMINATOR)
        creator_fee == MulDivDown(amount_in, c.creator_fee_basis_points, FEE_DENOMINATOR)
        bps == EffectiveBps(c, HasReferral(has_l1, has_l2, has_l3))
        total_fee == TotalFee(amount_in, bps)
        protocol_fee == ProtocolFee(total_fee, l1, l2, l3, creator_fee, cashback_fee)
    IN  IF bps < 0 THEN FeeErr("MathOverflow")
        ELSE IF protocol_fee < 0 THEN FeeErr("MathOverflow")
        ELSE IF NetAmount(amount_in, total_fee) < 0 THEN FeeErr("MathOverflow")
        ELSE [ok |-> TRUE, err |-> "Ok",
              amount |-> NetAmount(amount_in, total_fee),
              l1_referral_fee |-> l1, l2_referral_fee |-> l2, l3_referral_fee |-> l3,
              creator_fee |-> creator_fee, cashback_fee |-> cashback_fee,
              protocol_fee |-> protocol_fee]

\* FeeBreakdown::sum
FeeSum(f) ==
    f.l1_referral_fee + f.l2_referral_fee + f.l3_referral_fee
    + f.creator_fee + f.cashback_fee + f.protocol_fee

----------------------------------------------------------------------------
(* Curve primitives.  Square-root prices are fixed-point numbers with      *)
(* RESOLUTION fractional bits (64 in the program, Q64.64; scaled down here *)
(* so that the products fit TLC's integers).                               *)

RESOLUTION == 8

\* 2^(2 * RESOLUTION): the fixed-point base of liquidity * sqrt-price products
PriceScale == 2 ^ (2 * RESOLUTION)

DivUp(x, y) == (x + y - 1) \div y

DivRound(x, y, round_up) == IF round_up THEN DivUp(x, y) ELSE x \div y

\* liquidity * (upper - lower) / (upper * lower)
get_delta_amount_base_unsigned(lower_sqrt_price, upper_sqrt_price, liquidity, round_up) ==
    DivRound(liquidity * (upper_sqrt_price - lower_sqrt_price),
             lower_sqrt_price * upper_sqrt_price, round_up)

\* liquidity * (upper - lower) / 2^(2 * RESOLUTION)
get_delta_amount_quote_unsigned(lower_sqrt_price, upper_sqrt_price, liquidity, round_up) ==
    DivRound(liquidity * (upper_sqrt_price - lower_sqrt_price), PriceScale, round_up)

\* base in (base_for_quote): sqrt_price * liquidity / (liquidity + amount_in * sqrt_price),
\* rounded up; quote in: sqrt_price + amount_in * 2^(2 * RESOLUTION) / liquidity, rounded down
get_next_sqrt_price_from_input(sqrt_price, liquidity, amount_in, base_for_quote) ==
    IF base_for_quote
    THEN IF amount_in = 0 THEN sqrt_price
         ELSE DivUp(liquidity * sqrt_price, liquidity + amount_in * sqrt_price)
    ELSE sqrt_price + (amount_in * PriceScale) \div liquidity

----------------------------------------------------------------------------
(* Config: the price part *)

CurveLen == 4

\* The bounds of a sqrt price, at the scale of the model: the Configs of the
\* model start on the lower bound and end their curve on the upper one.
MIN_SQRT_PRICE == 2 ^ RESOLUTION
MAX_SQRT_PRICE == 5 * 2 ^ RESOLUTION

\* Config::get_max_swallow_quote_amount
get_max_swallow_quote_amount(c) == MulDivDown(c.migration_quote_threshold, 20, 100)

\* Config::get_migration_quote_amount (the quote_amount field)
get_migration_quote_amount(c) ==
    MulDivUp(c.migration_quote_threshold,
             FEE_DENOMINATOR - c.migration_fee_basis_points, FEE_DENOMINATOR)

\* LockedVestingParams::has_vesting
has_vesting(c) ==
    c.locked_vesting_config.cliff_unlock_amount
    + c.locked_vesting_config.amount_per_period
      * c.locked_vesting_config.number_of_period > 0

SwapAmountErr(e) == [ok |-> FALSE, err |-> e, output_amount |-> 0, next_sqrt_price |-> 0]

SwapAmountOk(out, price) ==
    [ok |-> TRUE, err |-> "Ok", output_amount |-> out, next_sqrt_price |-> price]

----------------------------------------------------------------------------
(* BondingCurve::get_swap_amount_from_quote_to_base (buy): the walk over   *)
(* curve[i], i = 0 .. 3, with the loop state (current_sqrt_price,          *)
(* amount_left, total_output_amount)                                       *)

\* BuyFinish that moves the price by the leftover it swallows
BuyFinish_PricesSwallow(c, current_sqrt_price, amount_left, total_output_amount) ==
    IF amount_left <= get_max_swallow_quote_amount(c)
    THEN SwapAmountOk(total_output_amount, current_sqrt_price + amount_left)
    ELSE SwapAmountErr("SwapAmountIsOverAThreshold")

\* BuyFinish without the swallow check
BuyFinish_SwallowsAll(c, current_sqrt_price, amount_left, total_output_amount) ==
    SwapAmountOk(total_output_amount, current_sqrt_price)

\* the check after the loop
BuyFinish(c, current_sqrt_price, amount_left, total_output_amount) ==
    IF amount_left <= get_max_swallow_quote_amount(c)
    THEN SwapAmountOk(total_output_amount, current_sqrt_price)
    ELSE SwapAmountErr("SwapAmountIsOverAThreshold")

\* BuyWalk that skips an unconfigured breakpoint and goes on with the next one
RECURSIVE BuyWalk_SkipsUnconfigured(_, _, _, _, _)
BuyWalk_SkipsUnconfigured(c, i, current_sqrt_price, amount_left, total_output_amount) ==
    IF i > CurveLen
        THEN BuyFinish(c, current_sqrt_price, amount_left, total_output_amount)
    ELSE IF c.curve[i].sqrt_price = 0 \/ c.curve[i].liquidity = 0
        THEN BuyWalk_SkipsUnconfigured(c, i + 1, current_sqrt_price, amount_left,
                                       total_output_amount)
    ELSE IF c.curve[i].sqrt_price > current_sqrt_price
        THEN LET max_amount_in ==
                     get_delta_amount_quote_unsigned(current_sqrt_price,
                         c.curve[i].sqrt_price, c.curve[i].liquidity, TRUE)
             IN  IF amount_left < max_amount_in
                 THEN LET next_sqrt_price ==
                              get_next_sqrt_price_from_input(current_sqrt_price,
                                  c.curve[i].liquidity, amount_left, FALSE)
                          output_amount ==
                              get_delta_amount_base_unsigned(current_sqrt_price,
                                  next_sqrt_price, c.curve[i].liquidity, FALSE)
                      IN  BuyFinish(c, next_sqrt_price, 0,
                                    total_output_amount + output_amount)
                 ELSE LET next_sqrt_price == c.curve[i].sqrt_price
                          output_amount ==
                              get_delta_amount_base_unsigned(current_sqrt_price,
                                  next_sqrt_price, c.curve[i].liquidity, FALSE)
                      IN  BuyWalk_SkipsUnconfigured(c, i + 1, next_sqrt_price,
                                  amount_left - max_amount_in,
                                  total_output_amount + output_amount)
    ELSE BuyWalk_SkipsUnconfigured(c, i + 1, current_sqrt_price, amount_left,
                                   total_output_amount)

RECURSIVE BuyWalk(_, _, _, _, _)
BuyWalk(c, i, current_sqrt_price, amount_left, total_output_amount) ==
    IF i > CurveLen
        THEN BuyFinish(c, current_sqrt_price, amount_left, total_output_amount)
    ELSE IF c.curve[i].sqrt_price = 0 \/ c.curve[i].liquidity = 0
        THEN BuyFinish(c, current_sqrt_price, amount_left, total_output_amount)
    ELSE IF c.curve[i].sqrt_price > current_sqrt_price
        THEN LET max_amount_in ==
                     get_delta_amount_quote_unsigned(current_sqrt_price,
                         c.curve[i].sqrt_price, c.curve[i].liquidity, TRUE)
             IN  IF amount_left < max_amount_in
                 THEN LET next_sqrt_price ==
                              get_next_sqrt_price_from_input(current_sqrt_price,
                                  c.curve[i].liquidity, amount_left, FALSE)
                          output_amount ==
                              get_delta_amount_base_unsigned(current_sqrt_price,
                                  next_sqrt_price, c.curve[i].liquidity, FALSE)
                      IN  BuyFinish(c, next_sqrt_price, 0,
                                    total_output_amount + output_amount)
                 ELSE LET next_sqrt_price == c.curve[i].sqrt_price
                          output_amount ==
                              get_delta_amount_base_unsigned(current_sqrt_price,
                                  next_sqrt_price, c.curve[i].liquidity, FALSE)
                      IN  BuyWalk(c, i + 1, next_sqrt_price,
                                  amount_left - max_amount_in,
                                  total_output_amount + output_amount)
    ELSE BuyWalk(c, i + 1, current_sqrt_price, amount_left, total_output_amount)

get_swap_amount_from_quote_to_base(b, c, amount_in) ==
    BuyWalk(c, 1, b.sqrt_price, amount_in, 0)

----------------------------------------------------------------------------
(* BondingCurve::get_swap_amount_from_base_to_quote (sell): the reverse    *)
(* walk, i = 2, 1, 0 in the program (3, 2, 1 here: sequences start at 1)   *)

\* SellFinish on curve[1].liquidity, the liquidity of the segment above
SellFinish_UsesNextSegment(c, current_sqrt_price, amount_left, total_output_amount) ==
    IF amount_left # 0
    THEN IF c.curve[2].liquidity = 0 \/ current_sqrt_price = 0
         THEN SwapAmountErr("MathOverflow")
         ELSE LET next_sqrt_price ==
                      get_next_sqrt_price_from_input(current_sqrt_price,
                          c.curve[2].liquidity, amount_left, TRUE)
                  output_amount ==
                      get_delta_amount_quote_unsigned(next_sqrt_price,
                          current_sqrt_price, c.curve[2].liquidity, FALSE)
              IN  SwapAmountOk(total_output_amount + output_amount, next_sqrt_price)
    ELSE SwapAmountOk(total_output_amount, current_sqrt_price)

\* the `if amount_left != 0` leg after the loop, on curve[0].liquidity
SellFinish(c, current_sqrt_price, amount_left, total_output_amount) ==
    IF amount_left # 0
    THEN IF c.curve[1].liquidity = 0 \/ current_sqrt_price = 0
         THEN SwapAmountErr("MathOverflow")
         ELSE LET next_sqrt_price ==
                      get_next_sqrt_price_from_input(current_sqrt_price,
                          c.curve[1].liquidity, amount_left, TRUE)
                  output_amount ==
                      get_delta_amount_quote_unsigned(next_sqrt_price,
                          current_sqrt_price, c.curve[1].liquidity, FALSE)
              IN  SwapAmountOk(total_output_amount + output_amount, next_sqrt_price)
    ELSE SwapAmountOk(total_output_amount, current_sqrt_price)

RECURSIVE SellWalk(_, _, _, _, _)
SellWalk(c, i, current_sqrt_price, amount_left, total_output_amount) ==
    IF i < 1
        THEN SellFinish(c, current_sqrt_price, amount_left, total_output_amount)
    ELSE IF c.curve[i].sqrt_price = 0 \/ c.curve[i].liquidity = 0
        THEN SellWalk(c, i - 1, current_sqrt_price, amount_left, total_output_amount)
    ELSE IF c.curve[i].sqrt_price < current_sqrt_price
        THEN LET max_amount_in ==
                     get_delta_amount_base_unsigned(c.curve[i].sqrt_price,
                         current_sqrt_price, c.curve[i + 1].liquidity, TRUE)
             IN  IF amount_left < max_amount_in
                 THEN LET next_sqrt_price ==
                              get_next_sqrt_price_from_input(current_sqrt_price,
                                  c.curve[i + 1].liquidity, amount_left, TRUE)
                          output_amount ==
                              get_delta_amount_quote_unsigned(next_sqrt_price,
                                  current_sqrt_price, c.curve[i + 1].liquidity, FALSE)
                      IN  SellFinish(c, next_sqrt_price, 0,
                                     total_output_amount + output_amount)
                 ELSE LET next_sqrt_price == c.curve[i].sqrt_price
                          output_amount ==
                              get_delta_amount_quote_unsigned(next_sqrt_price,
                                  current_sqrt_price, c.curve[i + 1].liquidity, FALSE)
                      IN  SellWalk(c, i - 1, next_sqrt_price,
                                   amount_left - max_amount_in,
                                   total_output_amount + output_amount)
    ELSE SellWalk(c, i - 1, current_sqrt_price, amount_left, total_output_amount)

get_swap_amount_from_base_to_quote(b, c, amount_in) ==
    SellWalk(c, CurveLen - 1, b.sqrt_price, amount_in, 0)

----------------------------------------------------------------------------
(* BondingCurve::get_swap_result *)

QuoteToBase == "QuoteToBase"
BaseToQuote == "BaseToQuote"

SwapErr(e) ==
    [ok |-> FALSE, err |-> e, capped |-> FALSE, actual_input_amount |-> 0,
     output_amount |-> 0, next_sqrt_price |-> 0, trading_fee |-> 0,
     protocol_fee |-> 0, cashback_fee |-> 0, creator_fee |-> 0,
     l1_referral_fee |-> 0, l2_referral_fee |-> 0, l3_referral_fee |-> 0]

SwapOk(capped, actual_amount_in, actual_amount_out, next_sqrt_price, f) ==
    [ok |-> TRUE, err |-> "Ok", capped |-> capped,
     actual_input_amount |-> actual_amount_in,
     output_amount |-> actual_amount_out, next_sqrt_price |-> next_sqrt_price,
     trading_fee |-> FeeSum(f), protocol_fee |-> f.protocol_fee,
     cashback_fee |-> f.cashback_fee, creator_fee |-> f.creator_fee,
     l1_referral_fee |-> f.l1_referral_fee, l2_referral_fee |-> f.l2_referral_fee,
     l3_referral_fee |-> f.l3_referral_fee]

\* quote_reserve.safe_sub(creator_fee)?.safe_sub(protocol_fee)? fails
ReserveNetOfFeesUnderflows(b) ==
    b.quote_reserve < b.creator_fee + b.protocol_fee

\* quote_reserve.safe_sub(creator_fee)?.safe_sub(protocol_fee)?.safe_add(amount)?
ReserveNetOfFeesPlus(b, amount) ==
    b.quote_reserve - b.creator_fee - b.protocol_fee + amount

\* migration_quote_threshold.safe_sub(quote_reserve)?.safe_add(creator_fee)?.safe_add(protocol_fee)?
CappedAmountInBeforeFees(b, c) ==
    c.migration_quote_threshold - b.quote_reserve + b.creator_fee + b.protocol_fee

\* CappedAmountIn without the gross-up: the fee is not added on top
CappedAmountIn_NoGrossUp(capped_amount_in_before_fees, effective_fee_basis_points) ==
    capped_amount_in_before_fees

\* safe_mul_div_cast_u64(before_fees, FEE_DENOMINATOR, FEE_DENOMINATOR - bps, Rounding::Up)
CappedAmountIn(capped_amount_in_before_fees, effective_fee_basis_points) ==
    MulDivUp(capped_amount_in_before_fees, FEE_DENOMINATOR,
             FEE_DENOMINATOR - effective_fee_basis_points)

FeeChoice(ok, err, capped, fee) == [ok |-> ok, err |-> err, capped |-> capped, fee |-> fee]

\* the capped recomputation: `second` is get_fee_on_amount(capped_amount_in), then
\* the require on the recomputed net amount
CappedFeeBreakdown(b, c, second) ==
    IF ~second.ok THEN FeeChoice(FALSE, second.err, TRUE, second)
    ELSE IF ~(ReserveNetOfFeesPlus(b, second.amount) >= c.migration_quote_threshold)
        THEN FeeChoice(FALSE, "InvalidMigrationCalculation", TRUE, second)
    ELSE FeeChoice(TRUE, "Ok", TRUE, second)

\* GraduationCap without the cap: the requested amount is used as it is
GraduationCap_Uncapped(b, c, first, has_l1, has_l2, has_l3, cashback_tier) ==
    IF ~first.ok THEN FeeChoice(FALSE, first.err, FALSE, first)
    ELSE IF ReserveNetOfFeesUnderflows(b)
        THEN FeeChoice(FALSE, "MathOverflow", FALSE, first)
    ELSE FeeChoice(TRUE, "Ok", FALSE, first)

\* the graduation check on `first`, the fee breakdown of the requested amount_in
GraduationCap(b, c, first, has_l1, has_l2, has_l3, cashback_tier) ==
    IF ~first.ok THEN FeeChoice(FALSE, first.err, FALSE, first)
    ELSE IF ReserveNetOfFeesUnderflows(b)
        THEN FeeChoice(FALSE, "MathOverflow", FALSE, first)
    ELSE IF ReserveNetOfFeesPlus(b, first.amount) > c.migration_quote_threshold
        THEN IF c.migration_quote_threshold < b.quote_reserve
             THEN FeeChoice(FALSE, "MathOverflow", TRUE, first)
             ELSE CappedFeeBreakdown(b, c,
                      get_fee_on_amount(c,
                          CappedAmountIn(CappedAmountInBeforeFees(b, c),
                              EffectiveBps(c, HasReferral(has_l1, has_l2, has_l3))),
                          has_l1, has_l2, has_l3, cashback_tier))
    ELSE FeeChoice(TRUE, "Ok", FALSE, first)

\* the QuoteToBase branch up to the fee breakdown that is used
BuyFeeBreakdown(b, c, amount_in, has_l1, has_l2, has_l3, cashback_tier) ==
    GraduationCap(b, c,
        get_fee_on_amount(c, amount_in, has_l1, has_l2, has_l3, cashback_tier),
        has_l1, has_l2, has_l3, cashback_tier)

\* BuyResult that reports the gross amount as actual_input_amount
BuyResult_ReportsGross(fb, sa) ==
    IF ~sa.ok THEN SwapErr(sa.err)
    ELSE SwapOk(fb.capped, fb.fee.amount + FeeSum(fb.fee), sa.output_amount,
                sa.next_sqrt_price, fb.fee)

\* QuoteToBase: `sa` is the walk on the net amount of the fee breakdown
BuyResult(fb, sa) ==
    IF ~sa.ok THEN SwapErr(sa.err)
    ELSE SwapOk(fb.capped, fb.fee.amount, sa.output_amount, sa.next_sqrt_price, fb.fee)

\* QuoteToBase that feeds the curve the gross amount instead of the net
BuyWithFee_FeedsGross(b, c, fb) ==
    IF ~fb.ok THEN SwapErr(fb.err)
    ELSE BuyResult(fb, get_swap_amount_from_quote_to_base(b, c,
                           fb.fee.amount + FeeSum(fb.fee)))

BuyWithFee(b, c, fb) ==
    IF ~fb.ok THEN SwapErr(fb.err)
    ELSE BuyResult(fb, get_swap_amount_from_quote_to_base(b, c, fb.fee.amount))

\* SellResult that pays out the gross output of the walk
SellResult_PaysGross(amount_in, sa, fee) ==
    IF ~fee.ok THEN SwapErr(fee.err)
    ELSE SwapOk(FALSE, amount_in, sa.output_amount, sa.next_sqrt_price, fee)

\* BaseToQuote: `fee` is the fee breakdown of the walk's gross output
SellResult(amount_in, sa, fee) ==
    IF ~fee.ok THEN SwapErr(fee.err)
    ELSE SwapOk(FALSE, amount_in, fee.amount, sa.next_sqrt_price, fee)

SellWithAmount(c, amount_in, sa, has_l1, has_l2, has_l3, cashback_tier) ==
    IF ~sa.ok THEN SwapErr(sa.err)
    ELSE SellResult(amount_in, sa,
             get_fee_on_amount(c, sa.output_amount, has_l1, has_l2, has_l3,
                               cashback_tier))

get_swap_result(b, c, amount_in, trade_direction, has_l1, has_l2, has_l3, cashback_tier) ==
    IF trade_direction = QuoteToBase
    THEN BuyWithFee(b, c,
             BuyFeeBreakdown(b, c, amount_in, has_l1, has_l2, has_l3, cashback_tier))
    ELSE SellWithAmount(c, amount_in, get_swap_amount_from_base_to_quote(b, c, amount_in),
                        has_l1, has_l2, has_l3, cashback_tier)

\* is_curve_complete with a strict comparison
is_curve_complete_Strict(b, migration_threshold) == b.quote_reserve > migration_threshold

\* BondingCurve::is_curve_complete
is_curve_complete(b, migration_threshold) == b.quote_reserve >= migration_threshold

----------------------------------------------------------------------------
(* BondingCurve::apply_swap_result; ok = FALSE stands for the MathOverflow *)
(* of a safe_sub                                                           *)

ApplyUnderflows(b, r, trade_direction) ==
    IF trade_direction = BaseToQuote
    THEN b.quote_reserve < r.output_amount
    ELSE b.base_reserve < r.output_amount

\* apply_swap_result that adds the output of a BaseToQuote swap, not its
\* input, to base_reserve
apply_swap_result_AddsOutput(b, r, trade_direction) ==
    IF trade_direction = BaseToQuote
    THEN [b EXCEPT !.sqrt_price = r.next_sqrt_price,
                   !.base_reserve = b.base_reserve + r.output_amount,
                   !.quote_reserve = b.quote_reserve - r.output_amount,
                   !.creator_fee = b.creator_fee + r.creator_fee,
                   !.protocol_fee = b.protocol_fee + r.protocol_fee]
    ELSE [b EXCEPT !.sqrt_price = r.next_sqrt_price,
                   !.quote_reserve = b.quote_reserve + r.actual_input_amount,
                   !.base_reserve = b.base_reserve - r.output_amount,
                   !.creator_fee = b.creator_fee + r.creator_fee,
                   !.protocol_fee = b.protocol_fee + r.protocol_fee]

\* apply_swap_result with the two branches exchanged
apply_swap_result_BranchesExchanged(b, r, trade_direction) ==
    IF trade_direction = QuoteToBase
    THEN [b EXCEPT !.sqrt_price = r.next_sqrt_price,
                   !.base_reserve = b.base_reserve + r.actual_input_amount,
                   !.quote_reserve = b.quote_reserve - r.output_amount,
                   !.creator_fee = b.creator_fee + r.creator_fee,
                   !.protocol_fee = b.protocol_fee + r.protocol_fee]
    ELSE [b EXCEPT !.sqrt_price = r.next_sqrt_price,
                   !.quote_reserve = b.quote_reserve + r.actual_input_amount,
                   !.base_reserve = b.base_reserve - r.output_amount,
                   !.creator_fee = b.creator_fee + r.creator_fee,
                   !.protocol_fee = b.protocol_fee + r.protocol_fee]

apply_swap_result(b, r, trade_direction) ==
    IF trade_direction = BaseToQuote
    THEN [b EXCEPT !.sqrt_price = r.next_sqrt_price,
                   !.base_reserve = b.base_reserve + r.actual_input_amount,
                   !.quote_reserve = b.quote_reserve - r.output_amount,
                   !.creator_fee = b.creator_fee + r.creator_fee,
                   !.protocol_fee = b.protocol_fee + r.protocol_fee]
    ELSE [b EXCEPT !.sqrt_price = r.next_sqrt_price,
                   !.quote_reserve = b.quote_reserve + r.actual_input_amount,
                   !.base_reserve = b.base_reserve - r.output_amount,
                   !.creator_fee = b.creator_fee + r.creator_fee,
                   !.protocol_fee = b.protocol_fee + r.protocol_fee]

----------------------------------------------------------------------------
(* The fee engine on its own: create_config, then get_fee_on_amount on the *)
(* created Config for inputs drawn from bounded sets                       *)

MaxFeeAmount == 20000

FeeAmounts == {0, 1, 7, 99, 100, 333, 1000, 4999, 12345, MaxFeeAmount}

CandidateParams ==
    [fee_basis_points : {900, 2000, 10000},
     l1_referral_fee_basis_points : {500},
     l2_referral_fee_basis_points : {300, 500},
     l3_referral_fee_basis_points : {100},
     referee_discount_basis_points : {0, 200, 1800, 2500},
     creator_fee_basis_points : {0, 500, 1001},
     migration_base_threshold : {1}]

NoFeeArgs ==
    [called |-> FALSE, amount_in |-> 0, has_l1 |-> FALSE, has_l2 |-> FALSE,
     has_l3 |-> FALSE, cashback_tier |-> NoTier]

FeeInit ==
    /\ params \in CandidateParams
    /\ config_state = "none"
    /\ fee_args = NoFeeArgs
    /\ fee_ret = FeeErr("none")

FeeIdle ==
    /\ params = CHOOSE p \in CandidateParams : validate(p) = "Ok"
    /\ config_state = "none"
    /\ fee_args = NoFeeArgs
    /\ fee_ret = FeeErr("none")

\* handle_create_config: validate, then Config::init copies the parameters
handle_create_config ==
    /\ config_state = "none"
    /\ config_state' = IF validate(params) = "Ok" THEN "created" ELSE "rejected"
    /\ UNCHANGED << params, fee_args, fee_ret >>

CallGetFeeOnAmount ==
    /\ config_state = "created"
    /\ ~fee_args.called
    /\ \E amount_in \in FeeAmounts, has_l1 \in BOOLEAN, has_l2 \in BOOLEAN,
          has_l3 \in BOOLEAN, tier \in Tiers \cup {NoTier} :
          /\ fee_args' = [called |-> TRUE, amount_in |-> amount_in, has_l1 |-> has_l1,
                          has_l2 |-> has_l2, has_l3 |-> has_l3, cashback_tier |-> tier]
          /\ fee_ret' = get_fee_on_amount(params, amount_in, has_l1, has_l2, has_l3, tier)
    /\ UNCHANGED << params, config_state >>

----------------------------------------------------------------------------
(* The curve: configurations, the initial state and the instructions       *)

PreBondingCurve == 0
PostBondingCurve == 1
LockedVesting == 2
CreatedPool == 3

MaxSwaps == 2
InitialBaseSupply == 2500

NoPoint == [sqrt_price |-> 0, liquidity |-> 0]

\* sqrt prices 1.0 -> 3.0 -> 5.0 in fixed point; the first segment holds 4000
\* quote units, the second 8000; the threshold lies inside the second segment.
\* 5978 = 49 * 122: at 2000 fee basis points the gross-up of 5978 is the integer
\* 6100, with the referee discount (1800 basis points) it is not
CurveConfig(discount, vesting_amount) ==
    [fee_basis_points |-> 2000,
     l1_referral_fee_basis_points |-> 500,
     l2_referral_fee_basis_points |-> 300,
     l3_referral_fee_basis_points |-> 100,
     referee_discount_basis_points |-> discount,
     creator_fee_basis_points |-> 500,
     migration_fee_basis_points |-> 1000,
     migration_quote_threshold |-> 5978,
     migration_base_threshold |-> 400,
     initial_sqrt_price |-> 2 ^ RESOLUTION,
     locked_vesting_config |->
         [cliff_unlock_amount |-> 0, amount_per_period |-> vesting_amount,
          number_of_period |-> 1],
     curve |-> << [sqrt_price |-> 3 * 2 ^ RESOLUTION, liquidity |-> 2000 * 2 ^ RESOLUTION],
                  [sqrt_price |-> 5 * 2 ^ RESOLUTION, liquidity |-> 4000 * 2 ^ RESOLUTION],
                  NoPoint, NoPoint >>]

CurveConfigs == {CurveConfig(200, 0), CurveConfig(200, 300)}

\* BondingCurve::init on a zeroed account
InitCurve(c) ==
    [base_reserve |-> InitialBaseSupply, quote_reserve |-> 0,
     sqrt_price |-> c.initial_sqrt_price, migration_status |-> PreBondingCurve,
     is_migrated |-> 0, curve_finish_timestamp |-> 0,
     protocol_fee |-> 0, creator_fee |-> 0]

NoLast ==
    [op |-> "none", amount_in |-> 0, capped |-> FALSE,
     actual_input_amount |-> 0, output_amount |-> 0, trading_fee |-> 0,
     returned |-> 0, paid |-> 0]

CurveInit ==
    /\ cfg \in CurveConfigs
    /\ validate(cfg) = "Ok"
    /\ curve = InitCurve(cfg)
    /\ base_vault = InitialBaseSupply
    /\ quote_vault = 0
    /\ now = 1
    /\ swaps = 0
    /\ last = NoLast

CurveIdle ==
    /\ cfg = CurveConfig(0, 0)
    /\ curve = InitCurve(cfg)
    /\ base_vault = InitialBaseSupply
    /\ quote_vault = 0
    /\ now = 1
    /\ swaps = 0
    /\ last = NoLast

\* the error of a byte that names no CashbackTier
InvalidCashbackTier == -1

\* CashbackTier::try_from (num_enum TryFromPrimitive): the variant with that
\* discriminant, or the error
CashbackTier_try_from(value) == IF value \in Tiers THEN value ELSE InvalidCashbackTier

\* get_tier without the clamp of a byte above Champion
get_tier_NoClamp(current_tier) == CashbackTier_try_from(current_tier)

\* CashbackAccount::get_tier on the stored byte
get_tier(current_tier) ==
    CashbackTier_try_from(IF current_tier > 6 THEN 6 ELSE current_tier)

\* the tier handle_swap reads; NoTier when no cashback account is passed
SwapTier(tier_byte) == IF tier_byte = NoTier THEN NoTier ELSE get_tier(tier_byte)

\* the status written when the curve completes
GraduationStatus(c) == IF has_vesting(c) THEN PostBondingCurve ELSE LockedVesting

\* Graduate without the write of curve_finish_timestamp
Graduate_NoTimestamp(b, c, current_timestamp) ==
    [b EXCEPT !.migration_status = GraduationStatus(c)]

\* the curve after the completion block of handle_swap
Graduate(b, c, current_timestamp) ==
    [b EXCEPT !.curve_finish_timestamp = current_timestamp,
              !.migration_status = GraduationStatus(c)]

\* quote vault after the transfers of a swap: the trader pays
\* actual_input_amount + trading_fee (buy) or receives output_amount (sell), then
\* the referral and cashback fees leave the vault
QuoteVaultAfterSwap(qv, r, trade_direction) ==
    IF trade_direction = QuoteToBase
    THEN qv + r.actual_input_amount + r.trading_fee
         - r.l1_referral_fee - r.l2_referral_fee - r.l3_referral_fee - r.cashback_fee
    ELSE qv - r.output_amount
         - r.l1_referral_fee - r.l2_referral_fee - r.l3_referral_fee - r.cashback_fee

BaseVaultAfterSwap(bv, amount_in, r, trade_direction) ==
    IF trade_direction = QuoteToBase THEN bv - r.output_amount ELSE bv + amount_in

SwapFail(e, r) ==
    [err |-> e, curve |-> curve, base_vault |-> base_vault,
     quote_vault |-> quote_vault, result |-> r]

\* SwapSettle without the check of the base vault in the completion block
SwapSettle_NoBaseCheck(amount_in, trade_direction, r, applied, qv, bv) ==
    IF trade_direction = BaseToQuote /\ amount_in > InitialBaseSupply - base_vault
        THEN SwapFail("TokenInsufficientFunds", r)
    ELSE IF qv < 0 \/ bv < 0 THEN SwapFail("TokenInsufficientFunds", r)
    ELSE IF is_curve_complete(applied, cfg.migration_quote_threshold)
        THEN [err |-> "Ok", curve |-> Graduate(applied, cfg, now),
              base_vault |-> bv, quote_vault |-> qv, result |-> r]
    ELSE [err |-> "Ok", curve |-> applied, base_vault |-> bv,
          quote_vault |-> qv, result |-> r]

\* handle_swap after apply_swap_result: the transfers and the completion block;
\* `applied` is the curve after apply_swap_result, qv and bv the vaults after the
\* transfers
SwapSettle(amount_in, trade_direction, r, applied, qv, bv) ==
    IF trade_direction = BaseToQuote /\ amount_in > InitialBaseSupply - base_vault
        THEN SwapFail("TokenInsufficientFunds", r)
    ELSE IF qv < 0 \/ bv < 0 THEN SwapFail("TokenInsufficientFunds", r)
    ELSE IF is_curve_complete(applied, cfg.migration_quote_threshold)
        THEN IF ~(bv >= cfg.migration_base_threshold)
             THEN SwapFail("InsufficientLiquidityForMigration", r)
             ELSE [err |-> "Ok", curve |-> Graduate(applied, cfg, now),
                   base_vault |-> bv, quote_vault |-> qv, result |-> r]
    ELSE [err |-> "Ok", curve |-> applied, base_vault |-> bv,
          quote_vault |-> qv, result |-> r]

\* SwapWithResult without the slippage check
SwapWithResult_NoSlippageCheck(amount_in, minimum_amount_out, trade_direction, r) ==
    IF ~r.ok THEN SwapFail(r.err, r)
    ELSE IF ApplyUnderflows(curve, r, trade_direction)
        THEN SwapFail("MathOverflow", r)
    ELSE SwapSettle(amount_in, trade_direction, r,
                    apply_swap_result(curve, r, trade_direction),
                    QuoteVaultAfterSwap(quote_vault, r, trade_direction),
                    BaseVaultAfterSwap(base_vault, amount_in, r, trade_direction))

\* handle_swap from get_swap_result (r) on
SwapWithResult(amount_in, minimum_amount_out, trade_direction, r) ==
    IF ~r.ok THEN SwapFail(r.err, r)
    ELSE IF ~(r.output_amount >= minimum_amount_out)
        THEN SwapFail("ExceededSlippage", r)
    ELSE IF ApplyUnderflows(curve, r, trade_direction)
        THEN SwapFail("MathOverflow", r)
    ELSE SwapSettle(amount_in, trade_direction, r,
                    apply_swap_result(curve, r, trade_direction),
                    QuoteVaultAfterSwap(quote_vault, r, trade_direction),
                    BaseVaultAfterSwap(base_vault, amount_in, r, trade_direction))

\* handle_swap from the current state: the error, or the state it commits
SwapOutcome(amount_in, minimum_amount_out, trade_direction, has_l1, has_l2, has_l3, tier_byte) ==
    IF ~(amount_in > 0) THEN SwapFail("AmountIsZero", SwapErr("AmountIsZero"))
    ELSE IF is_curve_complete(curve, cfg.migration_quote_threshold)
        THEN SwapFail("PoolIsCompleted", SwapErr("PoolIsCompleted"))
    ELSE IF SwapTier(tier_byte) = InvalidCashbackTier
        THEN SwapFail("InvalidCashbackTier", SwapErr("InvalidCashbackTier"))
    ELSE SwapWithResult(amount_in, minimum_amount_out, trade_direction,
             get_swap_result(curve, cfg, amount_in, trade_direction, has_l1, has_l2,
                             has_l3, SwapTier(tier_byte)))

MaxAmountIn == 9000
BuyAmounts == {0, 150, 2000, MaxAmountIn}
MinimumAmountsOut == {0, MaxAmountIn}
ReferralChoices == { << FALSE, FALSE, FALSE >>, << TRUE, TRUE, TRUE >> }
TierBytes == {NoTier, 7}

\* base tokens held outside the vault before graduation: what traders can sell
Circulating == InitialBaseSupply - base_vault

SellAmounts == {0, 150, Circulating}

SwapInputs(trade_direction) ==
    IF trade_direction = QuoteToBase THEN BuyAmounts ELSE SellAmounts

\* A failed instruction is reverted as a whole: no account changes.  The clock
\* advances by one with every committed swap.
handle_swap ==
    \E trade_direction \in {QuoteToBase, BaseToQuote},
       minimum_amount_out \in MinimumAmountsOut,
       ref \in ReferralChoices, tier_byte \in TierBytes :
      \E amount_in \in SwapInputs(trade_direction) :
        \E o \in {SwapOutcome(amount_in, minimum_amount_out, trade_direction,
                              ref[1], ref[2], ref[3], tier_byte)} :
            /\ o.err = "Ok"
            /\ swaps < MaxSwaps
            /\ curve' = o.curve
            /\ base_vault' = o.base_vault
            /\ quote_vault' = o.quote_vault
            /\ swaps' = swaps + 1
            /\ now' = now + 1
            /\ last' = [op |-> trade_direction, amount_in |-> amount_in,
                        capped |-> o.result.capped,
                        actual_input_amount |-> o.result.actual_input_amount,
                        output_amount |-> o.result.output_amount,
                        trading_fee |-> o.result.trading_fee,
                        returned |-> 0, paid |-> 0]
            /\ UNCHANGED cfg

\* handle_claim_protocol_fee from the current state: BondingCurve::claim_protocol_fee,
\* the NothingToClaim check and the transfer from the quote vault
ClaimProtocolFeeOutcome ==
    LET returned == curve.protocol_fee
        quote_token_claim_amount ==
            IF curve.migration_status = CreatedPool THEN quote_vault ELSE returned
    IN  IF ~(quote_token_claim_amount > 0)
            THEN [err |-> "NothingToClaim", curve |-> curve,
                  quote_vault |-> quote_vault, returned |-> returned, paid |-> 0]
        ELSE IF quote_vault < quote_token_claim_amount
            THEN [err |-> "TokenInsufficientFunds", curve |-> curve,
                  quote_vault |-> quote_vault, returned |-> returned, paid |-> 0]
        ELSE [err |-> "Ok", curve |-> [curve EXCEPT !.protocol_fee = 0],
              quote_vault |-> quote_vault - quote_token_claim_amount,
              returned |-> returned, paid |-> quote_token_claim_amount]

\* handle_claim_creator_fee from the current state
ClaimCreatorFeeOutcome ==
    LET quote_token_claim_amount == curve.creator_fee
    IN  IF ~(quote_token_claim_amount > 0)
            THEN [err |-> "NothingToClaim", curve |-> curve,
                  quote_vault |-> quote_vault,
                  returned |-> quote_token_claim_amount, paid |-> 0]
        ELSE IF quote_vault < quote_token_claim_amount
            THEN [err |-> "TokenInsufficientFunds", curve |-> curve,
                  quote_vault |-> quote_vault,
                  returned |-> quote_token_claim_amount, paid |-> 0]
        ELSE [err |-> "Ok", curve |-> [curve EXCEPT !.creator_fee = 0],
              quote_vault |-> quote_vault - quote_token_claim_amount,
              returned |-> quote_token_claim_amount,
              paid |-> quote_token_claim_amount]

CommitClaim(op, o) ==
    /\ o.err = "Ok"
    /\ curve' = o.curve
    /\ quote_vault' = o.quote_vault
    /\ last' = [NoLast EXCEPT !.op = op, !.returned = o.returned, !.paid = o.paid]
    /\ UNCHANGED << cfg, base_vault, now, swaps >>

handle_claim_protocol_fee == CommitClaim("claim_protocol_fee", ClaimProtocolFeeOutcome)

handle_claim_creator_fee == CommitClaim("claim_creator_fee", ClaimCreatorFeeOutcome)

\* the tokens the locker's vesting escrow takes from the base vault
VestingAmount(c) ==
    c.locked_vesting_config.cliff_unlock_amount
    + c.locked_vesting_config.amount_per_period * c.locked_vesting_config.number_of_period

\* CreateLockerOutcome without the check of the migration status
CreateLockerOutcome_NoStatusGuard ==
    IF base_vault < VestingAmount(cfg)
        THEN [err |-> "TokenInsufficientFunds", curve |-> curve,
              base_vault |-> base_vault]
    ELSE [err |-> "Ok", curve |-> [curve EXCEPT !.migration_status = LockedVesting],
          base_vault |-> base_vault - VestingAmount(cfg)]

\* handle_create_locker from the current state
CreateLockerOutcome ==
    IF curve.migration_status # PostBondingCurve
        THEN [err |-> "NotPermitToDoThisAction", curve |-> curve,
              base_vault |-> base_vault]
    ELSE IF base_vault < VestingAmount(cfg)
        THEN [err |-> "TokenInsufficientFunds", curve |-> curve,
              base_vault |-> base_vault]
    ELSE [err |-> "Ok", curve |-> [curve EXCEPT !.migration_status = LockedVesting],
          base_vault |-> base_vault - VestingAmount(cfg)]

handle_create_locker ==
    \E o \in {CreateLockerOutcome} :
        /\ o.err = "Ok"
        /\ curve' = o.curve
        /\ base_vault' = o.base_vault
        /\ last' = [NoLast EXCEPT !.op = "create_locker"]
        /\ UNCHANGED << cfg, quote_vault, now, swaps >>

\* MigrateOutcome without the check of the migration progress
MigrateOutcome_NoStatusGuard ==
    LET quote_amount == get_migration_quote_amount(cfg)
    IN  IF ~is_curve_complete(curve, cfg.migration_quote_threshold)
            THEN [err |-> "PoolIsIncompleted", curve |-> curve,
                  base_vault |-> base_vault, quote_vault |-> quote_vault]
        ELSE IF quote_vault < quote_amount \/ base_vault < cfg.migration_base_threshold
            THEN [err |-> "TokenInsufficientFunds", curve |-> curve,
                  base_vault |-> base_vault, quote_vault |-> quote_vault]
        ELSE [err |-> "Ok",
              curve |-> [curve EXCEPT !.is_migrated = 1,
                                      !.migration_status = CreatedPool],
              base_vault |-> base_vault - cfg.migration_base_threshold,
              quote_vault |-> quote_vault - quote_amount]

\* handle_migrate_damm_v2 from the current state; the pool takes the migration
\* quote amount and the base threshold from the vaults
MigrateOutcome ==
    LET quote_amount == get_migration_quote_amount(cfg)
    IN  IF curve.migration_status # LockedVesting
            THEN [err |-> "NotPermitToDoThisAction", curve |-> curve,
                  base_vault |-> base_vault, quote_vault |-> quote_vault]
        ELSE IF ~is_curve_complete(curve, cfg.migration_quote_threshold)
            THEN [err |-> "PoolIsIncompleted", curve |-> curve,
                  base_vault |-> base_vault, quote_vault |-> quote_vault]
        ELSE IF quote_vault < quote_amount \/ base_vault < cfg.migration_base_threshold
            THEN [err |-> "TokenInsufficientFunds", curve |-> curve,
                  base_vault |-> base_vault, quote_vault |-> quote_vault]
        ELSE [err |-> "Ok",
              curve |-> [curve EXCEPT !.is_migrated = 1,
                                      !.migration_status = CreatedPool],
              base_vault |-> base_vault - cfg.migration_base_threshold,
              quote_vault |-> quote_vault - quote_amount]

handle_migrate_damm_v2 ==
    \E o \in {MigrateOutcome} :
        /\ o.err = "Ok"
        /\ curve' = o.curve
        /\ base_vault' = o.base_vault
        /\ quote_vault' = o.quote_vault
        /\ last' = [NoLast EXCEPT !.op = "migrate_damm_v2"]
        /\ UNCHANGED << cfg, now, swaps >>

----------------------------------------------------------------------------
(* The cashback ledger: one CashbackAccount with its WSOL vault            *)

CASHBACK_CLAIM_COOLDOWN == 7 * 24 * 60 * 60
CASHBACK_INACTIVE_PERIOD == 365 * 24 * 60 * 60

MaxTicks == 4
MaxDeposits == 2

\* the account before handle_create_cashback (zeroed)
NoCashbackAccount == [exists |-> FALSE, current_tier |-> 0, last_claim_timestamp |-> 0]

\* times and counters of the run: when the account was created, when the last
\* claim succeeded (0: never), what the last instruction paid out
NoCashbackLast ==
    [op |-> "none", created_at |-> 0, claimed_at |-> 0, paid |-> 0,
     ticks |-> 0, deposits |-> 0]

CashbackIdle ==
    /\ cashback = NoCashbackAccount
    /\ wsol_vault = 0
    /\ cb_last = NoCashbackLast

\* CashbackAccount::init
CashbackAccount_init(unix_timestamp) ==
    [exists |-> TRUE, current_tier |-> 0, last_claim_timestamp |-> unix_timestamp]

\* CashbackAccount::update_tier
update_tier(account, new_tier) == [account EXCEPT !.current_tier = new_tier]

\* update_claim_timestamp that leaves the stored timestamp as it is
update_claim_timestamp_Stale(account, unix_timestamp) == account

\* CashbackAccount::update_claim_timestamp
update_claim_timestamp(account, unix_timestamp) ==
    [account EXCEPT !.last_claim_timestamp = unix_timestamp]

\* ClaimCashbackOutcome without the check of the vault balance
ClaimCashbackOutcome_NoBalanceCheck ==
    IF ~(now - cashback.last_claim_timestamp >= CASHBACK_CLAIM_COOLDOWN)
        THEN [err |-> "ClaimCooldownNotMet", cashback |-> cashback,
              wsol_vault |-> wsol_vault, paid |-> 0]
    ELSE [err |-> "Ok", cashback |-> update_claim_timestamp(cashback, now),
          wsol_vault |-> 0, paid |-> wsol_vault]

\* handle_claim_cashback from the current state
ClaimCashbackOutcome ==
    IF ~(now - cashback.last_claim_timestamp >= CASHBACK_CLAIM_COOLDOWN)
        THEN [err |-> "ClaimCooldownNotMet", cashback |-> cashback,
              wsol_vault |-> wsol_vault, paid |-> 0]
    ELSE IF ~(wsol_vault > 0)
        THEN [err |-> "NoCashbackToClaim", cashback |-> cashback,
              wsol_vault |-> wsol_vault, paid |-> 0]
    ELSE [err |-> "Ok", cashback |-> update_claim_timestamp(cashback, now),
          wsol_vault |-> 0, paid |-> wsol_vault]

\* ReclaimCashbackOutcome that also stamps the account, as a claim does
ReclaimCashbackOutcome_TouchesTimestamp ==
    IF ~(now - cashback.last_claim_timestamp >= CASHBACK_INACTIVE_PERIOD)
        THEN [err |-> "AccountNotInactive", cashback |-> cashback,
              wsol_vault |-> wsol_vault, paid |-> 0]
    ELSE IF ~(wsol_vault > 0)
        THEN [err |-> "NoCashbackToClaim", cashback |-> cashback,
              wsol_vault |-> wsol_vault, paid |-> 0]
    ELSE [err |-> "Ok", cashback |-> update_claim_timestamp(cashback, now),
          wsol_vault |-> 0, paid |-> wsol_vault]

\* ReclaimCashbackOutcome that waits for the claim cooldown only
ReclaimCashbackOutcome_ClaimCooldown ==
    IF ~(now - cashback.last_claim_timestamp >= CASHBACK_CLAIM_COOLDOWN)
        THEN [err |-> "AccountNotInactive", cashback |-> cashback,
              wsol_vault |-> wsol_vault, paid |-> 0]
    ELSE IF ~(wsol_vault > 0)
        THEN [err |-> "NoCashbackToClaim", cashback |-> cashback,
              wsol_vault |-> wsol_vault, paid |-> 0]
    ELSE [err |-> "Ok", cashback |-> cashback, wsol_vault |-> 0, paid |-> wsol_vault]

\* handle_reclaim_cashback from the current state
ReclaimCashbackOutcome ==
    IF ~(now - cashback.last_claim_timestamp >= CASHBACK_INACTIVE_PERIOD)
        THEN [err |-> "AccountNotInactive", cashback |-> cashback,
              wsol_vault |-> wsol_vault, paid |-> 0]
    ELSE IF ~(wsol_vault > 0)
        THEN [err |-> "NoCashbackToClaim", cashback |-> cashback,
              wsol_vault |-> wsol_vault, paid |-> 0]
    ELSE [err |-> "Ok", cashback |-> cashback, wsol_vault |-> 0, paid |-> wsol_vault]

idle_curve_vars == << cfg, curve, base_vault, quote_vault, swaps, last >>

handle_create_cashback ==
    /\ ~cashback.exists
    /\ cashback' = CashbackAccount_init(now)
    /\ wsol_vault' = 0
    /\ cb_last' = [cb_last EXCEPT !.op = "create_cashback", !.created_at = now, !.paid = 0]
    /\ UNCHANGED now

TierBytesStored == {3, 200}

handle_update_cashback_tier ==
    /\ cashback.exists
    /\ \E new_tier \in TierBytesStored :
          cashback' = update_tier(cashback, new_tier)
    /\ cb_last' = [cb_last EXCEPT !.op = "update_cashback_tier", !.paid = 0]
    /\ UNCHANGED << wsol_vault, now >>

CashbackAmounts == {1, 40}

\* the cashback_fee transfer of a swap into the account's WSOL vault
CashbackDeposit ==
    /\ cashback.exists
    /\ cb_last.deposits < MaxDeposits
    /\ \E amount \in CashbackAmounts : wsol_vault' = wsol_vault + amount
    /\ cb_last' = [cb_last EXCEPT !.op = "deposit", !.paid = 0,
                                  !.deposits = cb_last.deposits + 1]
    /\ UNCHANGED << cashback, now >>

handle_claim_cashback ==
    /\ cashback.exists
    /\ \E o \in {ClaimCashbackOutcome} :
          /\ o.err = "Ok"
          /\ cashback' = o.cashback
          /\ wsol_vault' = o.wsol_vault
          /\ cb_last' = [cb_last EXCEPT !.op = "claim_cashback", !.claimed_at = now,
                                        !.paid = o.paid]
    /\ UNCHANGED now

handle_reclaim_cashback ==
    /\ cashback.exists
    /\ \E o \in {ReclaimCashbackOutcome} :
          /\ o.err = "Ok"
          /\ cashback' = o.cashback
          /\ wsol_vault' = o.wsol_vault
          /\ cb_last' = [cb_last EXCEPT !.op = "reclaim_cashback", !.paid = o.paid]
    /\ UNCHANGED now

TickSteps ==
    {1, CASHBACK_CLAIM_COOLDOWN - 1, CASHBACK_CLAIM_COOLDOWN, CASHBACK_INACTIVE_PERIOD}

\* the clock moves on between instructions
Tick ==
    /\ cb_last.ticks < MaxTicks
    /\ \E step \in TickSteps : now' = now + step
    /\ cb_last' = [cb_last EXCEPT !.ticks = cb_last.ticks + 1]
    /\ UNCHANGED << cashback, wsol_vault >>

-----------------------------------------------------------------------------
(* The fee type of a curve.  handle_set_fee_type is translated from its    *)
(* source; the FeeType enum, the selector it reads and the three           *)
(* BondingCurve::fee_type_update_* methods it calls follow the             *)
(* specification's description of them.                                    *)

FeeTypeCreator == 0
FeeTypeMeme == 1
FeeTypeBlocked == 2

\* the error of a byte that names no FeeType
InvalidFeeType == -1

\* FeeType::try_from: the variant with that discriminant, or the error
FeeType_try_from(new_fee_type_raw) ==
    IF new_fee_type_raw \in {FeeTypeCreator, FeeTypeMeme, FeeTypeBlocked}
        THEN new_fee_type_raw ELSE InvalidFeeType

\* the result of a fee_type_update_* method
FeeTypeUpdate(ok, b) == [ok |-> ok, curve |-> b]

\* the accrued creator fee divided by the ratio creator_bps / meme_bps, the
\* excess swept into the protocol fee
fee_type_update_from_creator_to_meme(b, creator_bps, meme_bps) ==
    IF meme_bps = 0 THEN FeeTypeUpdate(FALSE, b)
    ELSE IF creator_bps \div meme_bps = 0 THEN FeeTypeUpdate(FALSE, b)
    ELSE FeeTypeUpdate(TRUE,
             [b EXCEPT !.creator_fee = b.creator_fee \div (creator_bps \div meme_bps),
                       !.protocol_fee = b.protocol_fee + b.creator_fee
                                        - b.creator_fee \div (creator_bps \div meme_bps)])

\* a relabeling: the counters stay
fee_type_update_from_meme_to_creator(b) == FeeTypeUpdate(TRUE, b)

\* the whole accrued creator fee swept into the protocol fee
fee_type_update_to_blocked(b) ==
    FeeTypeUpdate(TRUE, [b EXCEPT !.protocol_fee = b.protocol_fee + b.creator_fee,
                                  !.creator_fee = 0])

SetFeeTypeFail(e) == [err |-> e, curve |-> curve, fee_type |-> fee_type]

SetFeeTypeDone(new_fee_type, u) ==
    IF u.ok THEN [err |-> "Ok", curve |-> u.curve, fee_type |-> new_fee_type]
    ELSE SetFeeTypeFail("MathOverflow")

\* handle_set_fee_type whose catch-all arm relabels instead of failing
SetFeeTypeOutcome_NoCatchAll(new_fee_type_raw) ==
    IF FeeType_try_from(new_fee_type_raw) = InvalidFeeType
        THEN SetFeeTypeFail("InvalidFeeType")
    ELSE IF ~(fee_type # FeeType_try_from(new_fee_type_raw))
        THEN SetFeeTypeFail("FeeTypeAlreadySet")
    ELSE IF fee_type = FeeTypeCreator /\ new_fee_type_raw = FeeTypeMeme
        THEN SetFeeTypeDone(FeeTypeMeme,
                 fee_type_update_from_creator_to_meme(curve, cfg.creator_fee_basis_points,
                                                      meme_fee_basis_points))
    ELSE IF new_fee_type_raw = FeeTypeBlocked
        THEN SetFeeTypeDone(FeeTypeBlocked, fee_type_update_to_blocked(curve))
    ELSE SetFeeTypeDone(new_fee_type_raw, fee_type_update_from_meme_to_creator(curve))

\* handle_set_fee_type whose Meme -> Creator arm rescales as Creator -> Meme does
SetFeeTypeOutcome_RescalesBack(new_fee_type_raw) ==
    IF FeeType_try_from(new_fee_type_raw) = InvalidFeeType
        THEN SetFeeTypeFail("InvalidFeeType")
    ELSE IF ~(fee_type # FeeType_try_from(new_fee_type_raw))
        THEN SetFeeTypeFail("FeeTypeAlreadySet")
    ELSE IF fee_type = FeeTypeCreator /\ new_fee_type_raw = FeeTypeMeme
        THEN SetFeeTypeDone(FeeTypeMeme,
                 fee_type_update_from_creator_to_meme(curve, cfg.creator_fee_basis_points,
                                                      meme_fee_basis_points))
    ELSE IF fee_type = FeeTypeMeme /\ new_fee_type_raw = FeeTypeCreator
        THEN SetFeeTypeDone(FeeTypeCreator,
                 fee_type_update_from_creator_to_meme(curve, cfg.creator_fee_basis_points,
                                                      meme_fee_basis_points))
    ELSE IF new_fee_type_raw = FeeTypeBlocked
        THEN SetFeeTypeDone(FeeTypeBlocked, fee_type_update_to_blocked(curve))
    ELSE SetFeeTypeFail("InvalidFeeType")

\* handle_set_fee_type from the current state: the error, or the state it commits
SetFeeTypeOutcome(new_fee_type_raw) ==
    IF FeeType_try_from(new_fee_type_raw) = InvalidFeeType
        THEN SetFeeTypeFail("InvalidFeeType")
    ELSE IF ~(fee_type # FeeType_try_from(new_fee_type_raw))
        THEN SetFeeTypeFail("FeeTypeAlreadySet")
    ELSE IF fee_type = FeeTypeCreator /\ new_fee_type_raw = FeeTypeMeme
        THEN SetFeeTypeDone(FeeTypeMeme,
                 fee_type_update_from_creator_to_meme(curve, cfg.creator_fee_basis_points,
                                                      meme_fee_basis_points))
    ELSE IF fee_type = FeeTypeMeme /\ new_fee_type_raw = FeeTypeCreator
        THEN SetFeeTypeDone(FeeTypeCreator, fee_type_update_from_meme_to_creator(curve))
    ELSE IF new_fee_type_raw = FeeTypeBlocked
        THEN SetFeeTypeDone(FeeTypeBlocked, fee_type_update_to_blocked(curve))
    ELSE SetFeeTypeFail("InvalidFeeType")

MaxSetFeeTypeCalls == 2
RawFeeTypes == 0 .. 3
MemeFeeBasisPoints == {100, 250}

NoFeeTypeLast ==
    [calls |-> 0, old_fee_type |-> FeeTypeCreator, new_fee_type |-> FeeTypeCreator,
     creator_fee |-> 0, protocol_fee |-> 0]

\* a curve right after creation, under a Config whose meme rate is not drawn
FeeTypeIdle ==
    /\ fee_type = FeeTypeCreator
    /\ meme_fee_basis_points = 250
    /\ ft_last = NoFeeTypeLast

FeeTypeInit ==
    /\ fee_type = FeeTypeCreator
    /\ meme_fee_basis_points \in MemeFeeBasisPoints
    /\ ft_last = NoFeeTypeLast

\* A failed instruction is reverted as a whole; ft_last keeps the counters the
\* successful call found.
handle_set_fee_type ==
    \E new_fee_type_raw \in RawFeeTypes :
      \E o \in {SetFeeTypeOutcome(new_fee_type_raw)} :
        /\ o.err = "Ok"
        /\ ft_last.calls < MaxSetFeeTypeCalls
        /\ curve' = o.curve
        /\ fee_type' = o.fee_type
        /\ ft_last' = [calls |-> ft_last.calls + 1, old_fee_type |-> fee_type,
                       new_fee_type |-> o.fee_type, creator_fee |-> curve.creator_fee,
                       protocol_fee |-> curve.protocol_fee]
        /\ UNCHANGED << cfg, base_vault, quote_vault, now, swaps, last,
                        meme_fee_basis_points >>

-----------------------------------------------------------------------------
(* safe_mul_div_cast_u64 called on every triple of operands and both       *)
(* rounding modes                                                          *)

Roundings == {"Up", "Down"}

NoMulDivArgs == [called |-> FALSE, x |-> 0, y |-> 0, denominator |-> 1, rounding |-> "Down"]

NoSafeMathArgs == [called |-> FALSE, op |-> "safe_add", a |-> 0, v |-> 0]

SafeMathIdle ==
    /\ sm_args = NoSafeMathArgs
    /\ sm_ret = MulDivErr("none")

\* every SafeMath operation on every pair of operands; a shift amount is a u32
\* and may reach the bit width and beyond
SafeMathInit ==
    /\ sm_args \in [called : {FALSE}, op : SafeMathOps, a : 0 .. U64_MAX,
                    v : 0 .. U64_MAX]
    /\ sm_ret = MulDivErr("none")

CallSafeMath ==
    /\ ~sm_args.called
    /\ sm_args' = [sm_args EXCEPT !.called = TRUE]
    /\ sm_ret' = SafeMathCall(sm_args.op, sm_args.a, sm_args.v)

NoWalkArgs == [called |-> FALSE]

WalkIdle ==
    /\ walk_args = NoWalkArgs
    /\ walk_ret = [called |-> FALSE]

MathIdle ==
    /\ md_args = NoMulDivArgs
    /\ md_ret = MulDivErr("none")
    /\ SafeMathIdle
    /\ WalkIdle

MathInit ==
    /\ md_args \in [called : {FALSE}, x : 0 .. U64_MAX, y : 0 .. U64_MAX,
                    denominator : 0 .. U64_MAX, rounding : Roundings]
    /\ md_ret = MulDivErr("none")
    /\ SafeMathIdle
    /\ WalkIdle

CallSafeMulDiv ==
    /\ ~md_args.called
    /\ md_args' = [md_args EXCEPT !.called = TRUE]
    /\ md_ret' = safe_mul_div_cast_u64(md_args.x, md_args.y, md_args.denominator,
                                       md_args.rounding)
    /\ UNCHANGED << sm_args, sm_ret, walk_args, walk_ret >>

----------------------------------------------------------------------------
(* The QuoteToBase walk past the last breakpoint.  The curve of the model  *)
(* holds 12000 quote units; with a migration threshold above that the      *)
(* graduation cap lets a swap run past the last breakpoint.                *)

SwallowThresholds == {5978, 16000}

SwallowConfig(threshold) ==
    [CurveConfig(200, 0) EXCEPT !.migration_quote_threshold = threshold]

\* the first swap of a curve: none, within the first segment, within the
\* second, up to the last breakpoint
FirstBuys == {0, 2000, 6000, 12250}

MaxLeftover == 3300

\* a swap as handle_swap runs it on the curve: get_swap_result, then
\* apply_swap_result; the result and the curve it leaves (the curve as it was
\* on failure)
SwapLeg(b, c, amount_in, trade_direction, r) ==
    IF amount_in = 0 THEN [result |-> SwapErr("AmountIsZero"), curve |-> b]
    ELSE IF ~r.ok THEN [result |-> r, curve |-> b]
    ELSE IF ApplyUnderflows(b, r, trade_direction)
        THEN [result |-> SwapErr("MathOverflow"), curve |-> b]
    ELSE [result |-> r, curve |-> apply_swap_result(b, r, trade_direction)]

BuyLeg(b, c, amount_in) ==
    SwapLeg(b, c, amount_in, QuoteToBase,
            get_swap_result(b, c, amount_in, QuoteToBase, FALSE, FALSE, FALSE, NoTier))

SellLeg(b, c, amount_in) ==
    SwapLeg(b, c, amount_in, BaseToQuote,
            get_swap_result(b, c, amount_in, BaseToQuote, FALSE, FALSE, FALSE, NoTier))

\* the curve after a first QuoteToBase swap of first_amount
CurveAfterBuy(c, first_amount) ==
    IF first_amount = 0 THEN InitCurve(c)
    ELSE BuyLeg(InitCurve(c), c, first_amount).curve

\* the sum of max_amount_in over the segments above current_sqrt_price: what
\* the walk can take before it runs out of breakpoints
RECURSIVE QuoteCapacity(_, _, _)
QuoteCapacity(c, i, current_sqrt_price) ==
    IF i > CurveLen THEN 0
    ELSE IF c.curve[i].sqrt_price = 0 \/ c.curve[i].liquidity = 0 THEN 0
    ELSE IF c.curve[i].sqrt_price > current_sqrt_price
        THEN get_delta_amount_quote_unsigned(current_sqrt_price,
                 c.curve[i].sqrt_price, c.curve[i].liquidity, TRUE)
             + QuoteCapacity(c, i + 1, c.curve[i].sqrt_price)
    ELSE QuoteCapacity(c, i + 1, current_sqrt_price)

\* the price at which the walk runs out of breakpoints
RECURSIVE LastBreakpoint(_, _, _)
LastBreakpoint(c, i, current_sqrt_price) ==
    IF i > CurveLen THEN current_sqrt_price
    ELSE IF c.curve[i].sqrt_price = 0 \/ c.curve[i].liquidity = 0 THEN current_sqrt_price
    ELSE IF c.curve[i].sqrt_price > current_sqrt_price
        THEN LastBreakpoint(c, i + 1, c.curve[i].sqrt_price)
    ELSE LastBreakpoint(c, i + 1, current_sqrt_price)

WalkArgs(c, b, amount_in) ==
    [called |-> FALSE, config |-> c, curve |-> b, amount_in |-> amount_in]

\* a curve after its first swap and an amount that exhausts the breakpoints
\* above its price, with a leftover of 0 .. MaxLeftover
SwallowInit ==
    /\ \E threshold \in SwallowThresholds, first_amount \in FirstBuys,
          leftover \in 0 .. MaxLeftover :
          \E b \in {CurveAfterBuy(SwallowConfig(threshold), first_amount)} :
             walk_args = WalkArgs(SwallowConfig(threshold), b,
                             QuoteCapacity(SwallowConfig(threshold), 1, b.sqrt_price)
                             + leftover)
    /\ walk_ret = [called |-> FALSE]

\* the walk on amount_in, and the whole get_swap_result on amount_in
CallBuyWalk ==
    /\ ~walk_args.called
    /\ walk_args' = [walk_args EXCEPT !.called = TRUE]
    /\ walk_ret' =
           [called |-> TRUE,
            walk |-> get_swap_amount_from_quote_to_base(walk_args.curve,
                         walk_args.config, walk_args.amount_in),
            swap |-> get_swap_result(walk_args.curve, walk_args.config,
                         walk_args.amount_in, QuoteToBase, FALSE, FALSE, FALSE, NoTier)]

----------------------------------------------------------------------------
(* A QuoteToBase swap followed by the BaseToQuote swap of the base amount  *)
(* received.                                                               *)

RoundTripFirstBuys == {0, 600, 2000, 4500}

\* the curve of CurveConfig with an eighth of its liquidity: a base unit moves
\* the price by several units
ThinConfig ==
    [CurveConfig(200, 0) EXCEPT
        !.curve = << [sqrt_price |-> 3 * 2 ^ RESOLUTION, liquidity |-> 64000],
                     [sqrt_price |-> 5 * 2 ^ RESOLUTION, liquidity |-> 128000],
                     NoPoint, NoPoint >>]

RoundTripConfigs == CurveConfigs \cup {ThinConfig}

MaxRoundTripAmount == 1500

RoundTripInit ==
    /\ \E c \in RoundTripConfigs, first_amount \in RoundTripFirstBuys,
          amount_in \in 1 .. MaxRoundTripAmount :
          walk_args = WalkArgs(c, CurveAfterBuy(c, first_amount), amount_in)
    /\ walk_ret = [called |-> FALSE]

CallRoundTrip ==
    /\ ~walk_args.called
    /\ walk_args' = [walk_args EXCEPT !.called = TRUE]
    /\ \E buy \in {BuyLeg(walk_args.curve, walk_args.config, walk_args.amount_in)} :
          walk_ret' =
              [called |-> TRUE, buy |-> buy,
               sell |-> IF buy.result.ok
                        THEN SellLeg(buy.curve, walk_args.config,
                                     buy.result.output_amount)
                        ELSE [result |-> SwapErr("none"), curve |-> buy.curve]]

----------------------------------------------------------------------------
(* BondingCurve::apply_swap_result as a method on the account data: the    *)
(* fields are assigned one by one, and a failed safe_add / safe_sub        *)
(* returns from the middle of the assignments.                             *)

ApplyErr(b) == [err |-> "MathOverflow", curve |-> b]

\* the assignments in the order of the code; the amounts of the model stay far
\* below u64::MAX, so only a safe_sub can fail
ApplySwapResult(b, r, trade_direction) ==
    IF trade_direction = BaseToQuote
    THEN IF b.quote_reserve < r.output_amount
         THEN ApplyErr([b EXCEPT !.sqrt_price = r.next_sqrt_price,
                                 !.base_reserve = b.base_reserve + r.actual_input_amount])
         ELSE [err |-> "Ok", curve |-> apply_swap_result(b, r, trade_direction)]
    ELSE IF b.base_reserve < r.output_amount
         THEN ApplyErr([b EXCEPT !.sqrt_price = r.next_sqrt_price,
                                 !.quote_reserve = b.quote_reserve + r.actual_input_amount])
         ELSE [err |-> "Ok", curve |-> apply_swap_result(b, r, trade_direction)]

\* a BaseToQuote swap of amount_in up to the call of apply_swap_result; the
\* caller's token balance is looked at after it, by the transfer
CallApplySwapResult ==
    /\ ~walk_args.called
    /\ walk_args' = [walk_args EXCEPT !.called = TRUE]
    /\ \E r \in {get_swap_result(walk_args.curve, walk_args.config,
                     walk_args.amount_in, BaseToQuote, FALSE, FALSE, FALSE, NoTier)} :
          walk_ret' =
              [called |-> TRUE, result |-> r,
               applied |-> IF r.ok
                           THEN ApplySwapResult(walk_args.curve, r, BaseToQuote)
                           ELSE [err |-> r.err, curve |-> walk_args.curve]]

----------------------------------------------------------------------------
(* get_fee_on_amount on the reference Config: a fee of 100 and a creator   *)
(* fee of 20 out of FEE_DENOMINATOR, whatever the referral rates and the   *)
(* referee discount, with no referral account and no cashback account.     *)
(* validate rejects such a Config (its fee is below the sum of the other   *)
(* rates), so the function is called on the Config directly.               *)

ReferenceConfigs ==
    [fee_basis_points : {100},
     l1_referral_fee_basis_points : {0, 30},
     l2_referral_fee_basis_points : {0, 20},
     l3_referral_fee_basis_points : {0, 10},
     referee_discount_basis_points : {0, 50},
     creator_fee_basis_points : {20},
     migration_base_threshold : {1}]

ReferenceAmount == 1000000

MaxReferenceSpread == 3

ReferenceInit ==
    /\ walk_args \in [called : {FALSE}, config : ReferenceConfigs,
                      amount_in : (ReferenceAmount - MaxReferenceSpread)
                                  .. (ReferenceAmount + MaxReferenceSpread)]
    /\ walk_ret = [called |-> FALSE]

CallReferenceFee ==
    /\ ~walk_args.called
    /\ walk_args' = [walk_args EXCEPT !.called = TRUE]
    /\ walk_ret' = [called |-> TRUE,
                    fee |-> get_fee_on_amount(walk_args.config, walk_args.amount_in,
                                              FALSE, FALSE, FALSE, NoTier)]

----------------------------------------------------------------------------
(* handle_swap with its failures on record: the instruction is attempted   *)
(* with a minimum_amount_out around the output it computes, and what it    *)
(* returned is kept next to the accounts before and after it.              *)

MaxSlippageSwaps == 2

SwapAttempt(amount_in, minimum_amount_out, trade_direction) ==
    [called |-> TRUE, amount_in |-> amount_in,
     minimum_amount_out |-> minimum_amount_out, trade_direction |-> trade_direction,
     curve |-> curve, base_vault |-> base_vault, quote_vault |-> quote_vault]

TrySwap ==
    /\ swaps < MaxSlippageSwaps
    /\ \E trade_direction \in {QuoteToBase, BaseToQuote} :
       \E amount_in \in SwapInputs(trade_direction) :
       \E r \in {get_swap_result(curve, cfg, amount_in, trade_direction,
                                 FALSE, FALSE, FALSE, NoTier)} :
       \E minimum_amount_out \in
              MinimumAmountsOut \cup {r.output_amount, r.output_amount + 1} :
       \E o \in {SwapOutcome(amount_in, minimum_amount_out, trade_direction,
                             FALSE, FALSE, FALSE, NoTier)} :
            /\ walk_args' = SwapAttempt(amount_in, minimum_amount_out, trade_direction)
            /\ walk_ret' = [called |-> TRUE, err |-> o.err, result |-> o.result,
                            curve |-> o.curve, base_vault |-> o.base_vault,
                            quote_vault |-> o.quote_vault]
            /\ curve' = o.curve
            /\ base_vault' = o.base_vault
            /\ quote_vault' = o.quote_vault
            /\ swaps' = IF o.err = "Ok" THEN swaps + 1 ELSE swaps
            /\ now' = IF o.err = "Ok" THEN now + 1 ELSE now
            /\ UNCHANGED << cfg, last >>

----------------------------------------------------------------------------
(* The two walks on curve arrays whose last two slots are not configured:  *)
(* all zero, zero in one field only, or a zero slot before a configured    *)
(* one.                                                                    *)

UnconfiguredTails ==
    { << NoPoint, NoPoint >>,
      << [sqrt_price |-> 0, liquidity |-> 2048000],
         [sqrt_price |-> 6 * 2 ^ RESOLUTION, liquidity |-> 0] >>,
      << NoPoint, [sqrt_price |-> 6 * 2 ^ RESOLUTION, liquidity |-> 2048000] >> }

TailConfig(tail) ==
    [SwallowConfig(16000) EXCEPT
        !.curve = << @[1], @[2], tail[1], tail[2] >>]

MaxTailAmount == 2000

\* amounts within a segment, and amounts that cross the segments and exhaust them
TailAmounts == (1 .. MaxTailAmount) \cup {6000, 12000, 12500, 13000}

TailInit ==
    /\ \E tail \in UnconfiguredTails, first_amount \in FirstBuys,
          amount_in \in TailAmounts :
          walk_args = WalkArgs(TailConfig(tail),
                               CurveAfterBuy(TailConfig(tail), first_amount), amount_in)
    /\ walk_ret = [called |-> FALSE]

\* both walks on amount_in
CallWalks ==
    /\ ~walk_args.called
    /\ walk_args' = [walk_args EXCEPT !.called = TRUE]
    /\ walk_ret' =
           [called |-> TRUE,
            buy |-> get_swap_amount_from_quote_to_base(walk_args.curve,
                        walk_args.config, walk_args.amount_in),
            sell |-> get_swap_amount_from_base_to_quote(walk_args.curve,
                         walk_args.config, walk_args.amount_in)]

----------------------------------------------------------------------------
(* Longer histories of one curve: up to MaxTrades committed swaps between  *)
(* fee claims, create_locker and migrate_damm_v2.                          *)

MaxTrades == 3

\* validate never looks at migration_quote_threshold: a Config with a
\* threshold of 0 is accepted
ZeroThresholdConfig == [CurveConfig(200, 0) EXCEPT !.migration_quote_threshold = 0]

\* a Config whose migration_base_threshold is more than the base vault holds
\* when quote_reserve reaches the threshold (about 979 of 2500)
ScarceBaseConfig == [CurveConfig(200, 0) EXCEPT !.migration_base_threshold = 1000]

TradeConfigs == CurveConfigs \cup {ZeroThresholdConfig, ScarceBaseConfig}

TradeBuyAmounts == {150, 5000, MaxAmountIn}

TradeInputs(trade_direction) ==
    IF trade_direction = QuoteToBase THEN TradeBuyAmounts ELSE {150, Circulating}

\* the optional accounts of a swap: none, or the three referral accounts and
\* a cashback account (tier byte 7, read as Champion)
TradeAccounts == { << FALSE, FALSE, FALSE, NoTier >>, << TRUE, TRUE, TRUE, 7 >> }

\* handle_create_curve_spl_token on a Config that handle_create_config accepted
TradeInit ==
    /\ cfg \in TradeConfigs
    /\ validate(cfg) = "Ok"
    /\ curve = InitCurve(cfg)
    /\ base_vault = InitialBaseSupply
    /\ quote_vault = 0
    /\ now = 1
    /\ swaps = 0
    /\ last = NoLast

\* handle_swap with minimum_amount_out = 0; a failed instruction is reverted
Trade ==
    /\ swaps < MaxTrades
    /\ \E trade_direction \in {QuoteToBase, BaseToQuote}, acc \in TradeAccounts :
        \E amount_in \in TradeInputs(trade_direction) :
          \E o \in {SwapOutcome(amount_in, 0, trade_direction,
                                acc[1], acc[2], acc[3], acc[4])} :
            /\ o.err = "Ok"
            /\ curve' = o.curve
            /\ base_vault' = o.base_vault
            /\ quote_vault' = o.quote_vault
            /\ swaps' = swaps + 1
            /\ now' = now + 1
            /\ last' = [op |-> trade_direction, amount_in |-> amount_in,
                        capped |-> o.result.capped,
                        actual_input_amount |-> o.result.actual_input_amount,
                        output_amount |-> o.result.output_amount,
                        trading_fee |-> o.result.trading_fee,
                        returned |-> 0, paid |-> 0]
            /\ UNCHANGED cfg

----------------------------------------------------------------------------
(* What a trader pays and gets back over a QuoteToBase swap and the        *)
(* BaseToQuote swap of the base received, with the optional accounts of    *)
(* the swap: referral accounts and the trader's cashback account.          *)

MaxPaidIn == 1000

\* amounts within a segment, and amounts that cross the first breakpoint
PaidInAmounts == (1 .. MaxPaidIn) \cup {2500, 4200}

SwapAccounts == { << ref[1], ref[2], ref[3], tier >> : ref \in ReferralChoices, tier \in {NoTier, 6} }

\* handle_swap on curve b with the accounts acc: the completion check,
\* get_swap_result and apply_swap_result
SwapLegWith(b, c, amount_in, trade_direction, acc) ==
    IF is_curve_complete(b, c.migration_quote_threshold)
    THEN [result |-> SwapErr("PoolIsCompleted"), curve |-> b]
    ELSE SwapLeg(b, c, amount_in, trade_direction,
                 get_swap_result(b, c, amount_in, trade_direction,
                                 acc[1], acc[2], acc[3], acc[4]))

PaidInInit ==
    /\ \E c \in RoundTripConfigs, first_amount \in RoundTripFirstBuys,
          amount_in \in PaidInAmounts, acc \in SwapAccounts :
          walk_args = [called |-> FALSE, config |-> c,
                       curve |-> CurveAfterBuy(c, first_amount),
                       amount_in |-> amount_in, accounts |-> acc]
    /\ walk_ret = [called |-> FALSE]

CallBuyThenSell ==
    /\ ~walk_args.called
    /\ walk_args' = [walk_args EXCEPT !.called = TRUE]
    /\ \E buy \in {SwapLegWith(walk_args.curve, walk_args.config, walk_args.amount_in,
                               QuoteToBase, walk_args.accounts)} :
          walk_ret' =
              [called |-> TRUE, buy |-> buy,
               sell |-> IF buy.result.ok
                        THEN SwapLegWith(buy.curve, walk_args.config,
                                         buy.result.output_amount, BaseToQuote,
                                         walk_args.accounts)
                        ELSE [result |-> SwapErr("none"), curve |-> buy.curve]]

Init == FeeIdle /\ CurveInit /\ CashbackIdle /\ FeeTypeIdle /\ MathIdle

Next ==
    \/ handle_swap /\ UNCHANGED << fee_vars, cashback_vars, fee_type_vars, math_vars >>
    \/ handle_claim_protocol_fee /\ UNCHANGED << fee_vars, cashback_vars, fee_type_vars, math_vars >>
    \/ handle_claim_creator_fee /\ UNCHANGED << fee_vars, cashback_vars, fee_type_vars, math_vars >>
    \/ handle_create_locker /\ UNCHANGED << fee_vars, cashback_vars, fee_type_vars, math_vars >>
    \/ handle_migrate_damm_v2 /\ UNCHANGED << fee_vars, cashback_vars, fee_type_vars, math_vars >>

Spec == Init /\ [][Next]_vars


InitFee == FeeInit /\ CurveIdle /\ CashbackIdle /\ FeeTypeIdle /\ MathIdle

NextFee ==
    \/ handle_create_config /\ UNCHANGED << curve_vars, cashback_vars, fee_type_vars, math_vars >>
    \/ CallGetFeeOnAmount /\ UNCHANGED << curve_vars, cashback_vars, fee_type_vars, math_vars >>

SpecFee == InitFee /\ [][NextFee]_vars

InitCashback == FeeIdle /\ CurveIdle /\ CashbackIdle /\ FeeTypeIdle /\ MathIdle

NextCashback ==
    \/ handle_create_cashback /\ UNCHANGED << fee_vars, idle_curve_vars, fee_type_vars, math_vars >>
    \/ handle_update_cashback_tier /\ UNCHANGED << fee_vars, idle_curve_vars, fee_type_vars, math_vars >>
    \/ CashbackDeposit /\ UNCHANGED << fee_vars, idle_curve_vars, fee_type_vars, math_vars >>
    \/ handle_claim_cashback /\ UNCHANGED << fee_vars, idle_curve_vars, fee_type_vars, math_vars >>
    \/ handle_reclaim_cashback /\ UNCHANGED << fee_vars, idle_curve_vars, fee_type_vars, math_vars >>
    \/ Tick /\ UNCHANGED << fee_vars, idle_curve_vars, fee_type_vars, math_vars >>

SpecCashback == InitCashback /\ [][NextCashback]_vars

InitFeeType == FeeIdle /\ CurveInit /\ CashbackIdle /\ FeeTypeInit /\ MathIdle

\* the swaps of a behaviour of the fee-type specification
MaxFeeTypeSwaps == 1

NextFeeType ==
    \/ /\ swaps < MaxFeeTypeSwaps
       /\ handle_swap
       /\ UNCHANGED << fee_vars, cashback_vars, fee_type_vars, math_vars >>
    \/ handle_set_fee_type /\ UNCHANGED << fee_vars, cashback_vars, math_vars >>
    \/ handle_claim_creator_fee /\ UNCHANGED << fee_vars, cashback_vars, fee_type_vars, math_vars >>

SpecFeeType == InitFeeType /\ [][NextFeeType]_vars

InitMulDiv == FeeIdle /\ CurveIdle /\ CashbackIdle /\ FeeTypeIdle /\ MathInit

NextMulDiv ==
    \/ CallSafeMulDiv /\ UNCHANGED << fee_vars, curve_vars, cashback_vars, fee_type_vars >>

SpecMulDiv == InitMulDiv /\ [][NextMulDiv]_vars

InitSafeMath ==
    /\ FeeIdle /\ CurveIdle /\ CashbackIdle /\ FeeTypeIdle
    /\ md_args = NoMulDivArgs
    /\ md_ret = MulDivErr("none")
    /\ SafeMathInit
    /\ WalkIdle

NextSafeMath ==
    \/ /\ CallSafeMath
       /\ UNCHANGED << fee_vars, curve_vars, cashback_vars, fee_type_vars, md_args, md_ret,
                     walk_args, walk_ret >>

SpecSafeMath == InitSafeMath /\ [][NextSafeMath]_vars

InitSwallow ==
    /\ FeeIdle /\ CurveIdle /\ CashbackIdle /\ FeeTypeIdle
    /\ md_args = NoMulDivArgs
    /\ md_ret = MulDivErr("none")
    /\ SafeMathIdle
    /\ SwallowInit

NextSwallow ==
    \/ /\ CallBuyWalk
       /\ UNCHANGED << fee_vars, curve_vars, cashback_vars, fee_type_vars,
                       md_args, md_ret, sm_args, sm_ret >>

SpecSwallow == InitSwallow /\ [][NextSwallow]_vars

InitRoundTrip ==
    /\ FeeIdle /\ CurveIdle /\ CashbackIdle /\ FeeTypeIdle
    /\ md_args = NoMulDivArgs
    /\ md_ret = MulDivErr("none")
    /\ SafeMathIdle
    /\ RoundTripInit

NextRoundTrip ==
    \/ /\ CallRoundTrip
       /\ UNCHANGED << fee_vars, curve_vars, cashback_vars, fee_type_vars,
                       md_args, md_ret, sm_args, sm_ret >>

SpecRoundTrip == InitRoundTrip /\ [][NextRoundTrip]_vars

NextApply ==
    \/ /\ CallApplySwapResult
       /\ UNCHANGED << fee_vars, curve_vars, cashback_vars, fee_type_vars,
                       md_args, md_ret, sm_args, sm_ret >>

SpecApply == InitRoundTrip /\ [][NextApply]_vars

InitReference ==
    /\ FeeIdle /\ CurveIdle /\ CashbackIdle /\ FeeTypeIdle
    /\ md_args = NoMulDivArgs
    /\ md_ret = MulDivErr("none")
    /\ SafeMathIdle
    /\ ReferenceInit

NextReference ==
    \/ /\ CallReferenceFee
       /\ UNCHANGED << fee_vars, curve_vars, cashback_vars, fee_type_vars,
                       md_args, md_ret, sm_args, sm_ret >>

SpecReference == InitReference /\ [][NextReference]_vars

NextSlippage ==
    \/ /\ TrySwap
       /\ UNCHANGED << fee_vars, cashback_vars, fee_type_vars,
                       md_args, md_ret, sm_args, sm_ret >>

SpecSlippage == Init /\ [][NextSlippage]_vars

InitTail ==
    /\ FeeIdle /\ CurveIdle /\ CashbackIdle /\ FeeTypeIdle
    /\ md_args = NoMulDivArgs
    /\ md_ret = MulDivErr("none")
    /\ SafeMathIdle
    /\ TailInit

NextTail ==
    \/ /\ CallWalks
       /\ UNCHANGED << fee_vars, curve_vars, cashback_vars, fee_type_vars,
                       md_args, md_ret, sm_args, sm_ret >>

SpecTail == InitTail /\ [][NextTail]_vars

InitTrade == FeeIdle /\ TradeInit /\ CashbackIdle /\ FeeTypeIdle /\ MathIdle

NextTrade ==
    \/ Trade /\ UNCHANGED << fee_vars, cashback_vars, fee_type_vars, math_vars >>
    \/ handle_claim_protocol_fee /\ UNCHANGED << fee_vars, cashback_vars, fee_type_vars, math_vars >>
    \/ handle_claim_creator_fee /\ UNCHANGED << fee_vars, cashback_vars, fee_type_vars, math_vars >>
    \/ handle_create_locker /\ UNCHANGED << fee_vars, cashback_vars, fee_type_vars, math_vars >>
    \/ handle_migrate_damm_v2 /\ UNCHANGED << fee_vars, cashback_vars, fee_type_vars, math_vars >>

SpecTrade == InitTrade /\ [][NextTrade]_vars

InitPaidIn ==
    /\ FeeIdle /\ CurveIdle /\ CashbackIdle /\ FeeTypeIdle
    /\ md_args = NoMulDivArgs
    /\ md_ret = MulDivErr("none")
    /\ SafeMathIdle
    /\ PaidInInit

NextPaidIn ==
    \/ /\ CallBuyThenSell
       /\ UNCHANGED << fee_vars, curve_vars, cashback_vars, fee_type_vars,
                       md_args, md_ret, sm_args, sm_ret >>

SpecPaidIn == InitPaidIn /\ [][NextPaidIn]_vars

----------------------------------------------------------------------------
(* C1: fee conservation.  Whenever get_fee_on_amount succeeds, the net     *)
(* amount plus the six fee components equals amount_in exactly, and the    *)
(* six components sum to floor(amount_in * effective_bps / 100000).        *)
C1_FeeConservation ==
    (fee_args.called /\ fee_ret.ok) =>
        /\ fee_ret.amount + fee_ret.protocol_fee + fee_ret.l1_referral_fee
           + fee_ret.l2_referral_fee + fee_ret.l3_referral_fee
           + fee_ret.creator_fee + fee_ret.cashback_fee = fee_args.amount_in
        /\ FeeSum(fee_ret) =
              (fee_args.amount_in
                 * (IF fee_args.has_l1 \/ fee_args.has_l2 \/ fee_args.has_l3
                    THEN params.fee_basis_points - params.referee_discount_basis_points
                    ELSE params.fee_basis_points)) \div 100000
        /\ fee_ret.amount >= 0 /\ fee_ret.protocol_fee >= 0

\* a successful call with all referrals, a cashback tier and a rounding residue
C1_Witness ==
    /\ fee_args.called /\ fee_ret.ok
    /\ fee_args.has_l1 /\ fee_args.has_l2 /\ fee_args.has_l3
    /\ fee_args.cashback_tier = 6
    /\ params.referee_discount_basis_points = 200
    /\ fee_args.amount_in = 12345
    /\ fee_ret.protocol_fee > 0 /\ fee_ret.creator_fee > 0

(* C2: every Config accepted by ConfigParameters::validate makes           *)
(* get_fee_on_amount return Ok for every amount, referral combination and  *)
(* cashback tier.                                                          *)
C2_ValidatedConfigNeverUnderflows ==
    (config_state = "created" /\ fee_args.called) => fee_ret.ok

----------------------------------------------------------------------------
(* Inputs the claims about handle_swap and get_swap_result range over *)

ProbeAmounts == {1, 150, 2000, 6100, MaxAmountIn}

ProbeReferrals ==
    { << FALSE, FALSE, FALSE >>, << TRUE, FALSE, FALSE >>, << TRUE, TRUE, TRUE >> }

Directions == {QuoteToBase, BaseToQuote}

(* C3: migration_status only moves forward: PreBondingCurve ->             *)
(* PostBondingCurve (vesting configured) or PreBondingCurve ->             *)
(* LockedVesting (no vesting), PostBondingCurve -> LockedVesting,          *)
(* LockedVesting -> CreatedPool; no other change in any step, and none out *)
(* of CreatedPool.                                                         *)
C3_StatusForward ==
    [][ curve'.migration_status # curve.migration_status =>
          \/ /\ curve.migration_status = PreBondingCurve
             /\ curve'.migration_status = PostBondingCurve
             /\ has_vesting(cfg)
          \/ /\ curve.migration_status = PreBondingCurve
             /\ curve'.migration_status = LockedVesting
             /\ ~has_vesting(cfg)
          \/ /\ curve.migration_status = PostBondingCurve
             /\ curve'.migration_status = LockedVesting
          \/ /\ curve.migration_status = LockedVesting
             /\ curve'.migration_status = CreatedPool ]_vars

\* a curve with a vesting schedule that went through every status
C3_Witness ==
    /\ curve.migration_status = CreatedPool
    /\ has_vesting(cfg)
    /\ curve.is_migrated = 1

C5_InvalidMigrationCalculationUnreachable ==
    \A amount_in \in ProbeAmounts, ref \in ProbeReferrals, tier_byte \in TierBytes :
        get_swap_result(curve, cfg, amount_in, QuoteToBase, ref[1], ref[2], ref[3],
                        SwapTier(tier_byte)).err # "InvalidMigrationCalculation"

\* a committed first swap whose capped recomputation met the threshold with equality
C5_Witness ==
    /\ last.op = QuoteToBase /\ last.capped /\ swaps = 1
    /\ curve.quote_reserve = cfg.migration_quote_threshold
    /\ last.amount_in = MaxAmountIn

(* C6: from every state with migration_status = PreBondingCurve and        *)
(* quote_reserve below the threshold there is a QuoteToBase swap with      *)
(* minimum_amount_out = 0 that succeeds and completes the curve (a swap    *)
(* stopped only by the base vault falling short of                         *)
(* migration_base_threshold is left aside).                                *)
C6_CanAlwaysGraduateInOneTrade ==
    ( /\ curve.migration_status = PreBondingCurve
      /\ curve.quote_reserve < cfg.migration_quote_threshold )
    => \E amount_in \in {MaxAmountIn, 2 * MaxAmountIn}, ref \in ProbeReferrals,
          tier_byte \in TierBytes :
         \E o \in {SwapOutcome(amount_in, 0, QuoteToBase, ref[1], ref[2], ref[3],
                               tier_byte)} :
            \/ o.err = "Ok" /\ o.curve.quote_reserve >= cfg.migration_quote_threshold
            \/ o.err = "InsufficientLiquidityForMigration"

(* C7: in every state a swap with amount_in = 0 fails with AmountIsZero;   *)
(* in every state with quote_reserve >= migration_quote_threshold a swap   *)
(* with a positive amount_in, in either direction, fails with              *)
(* PoolIsCompleted and leaves the curve and the vaults as they are.        *)
C7_NoTradingAfterGraduation ==
    \A trade_direction \in Directions, minimum_amount_out \in MinimumAmountsOut,
       ref \in ProbeReferrals, tier_byte \in TierBytes :
      /\ SwapOutcome(0, minimum_amount_out, trade_direction, ref[1], ref[2], ref[3],
                     tier_byte).err = "AmountIsZero"
      /\ curve.quote_reserve >= cfg.migration_quote_threshold =>
           \A amount_in \in ProbeAmounts :
             \A o \in {SwapOutcome(amount_in, minimum_amount_out, trade_direction,
                                   ref[1], ref[2], ref[3], tier_byte)} :
                /\ o.err = "PoolIsCompleted"
                /\ o.curve = curve
                /\ o.base_vault = base_vault /\ o.quote_vault = quote_vault

\* a curve that landed exactly on its threshold, with tokens out to sell
C7_Witness ==
    /\ curve.quote_reserve = cfg.migration_quote_threshold
    /\ Circulating >= 150
    /\ SwapOutcome(150, 0, BaseToQuote, FALSE, FALSE, FALSE, NoTier).err
         = "PoolIsCompleted"

(* C8: the step that completes the curve writes migration_status           *)
(* (PostBondingCurve with a vesting schedule, LockedVesting without) and   *)
(* curve_finish_timestamp = now; no other step changes                     *)
(* curve_finish_timestamp, and no swap is committed on a complete curve.   *)
C8_GraduationFiresOnce ==
    [][ /\ ( /\ curve.quote_reserve < cfg.migration_quote_threshold
             /\ curve'.quote_reserve >= cfg.migration_quote_threshold )
           => /\ curve'.migration_status =
                   (IF has_vesting(cfg) THEN PostBondingCurve ELSE LockedVesting)
              /\ curve'.curve_finish_timestamp = now
              /\ curve.curve_finish_timestamp = 0
        /\ ~( /\ curve.quote_reserve < cfg.migration_quote_threshold
              /\ curve'.quote_reserve >= cfg.migration_quote_threshold )
           => curve'.curve_finish_timestamp = curve.curve_finish_timestamp
        /\ curve.quote_reserve >= cfg.migration_quote_threshold
           => /\ curve'.quote_reserve = curve.quote_reserve
              /\ swaps' = swaps ]_vars

\* a curve completed by its second swap and then migrated, the timestamp kept
C8_Witness ==
    /\ swaps = 2
    /\ curve.curve_finish_timestamp = 2
    /\ curve.migration_status = CreatedPool

(* C9: a fee claim returns the counter's prior value, leaves the counter   *)
(* at 0 and transfers exactly that value; with the counter at 0 it ends    *)
(* with NothingToClaim; no other step resets a counter to 0.               *)
C9_ClaimsPayPriorValue ==
    [][ /\ last'.op = "claim_protocol_fee" /\ last' # last =>
              /\ last'.returned = curve.protocol_fee
              /\ last'.paid = curve.protocol_fee
              /\ curve'.protocol_fee = 0
        /\ last'.op = "claim_creator_fee" /\ last' # last =>
              /\ last'.returned = curve.creator_fee
              /\ last'.paid = curve.creator_fee
              /\ curve'.creator_fee = 0
        /\ curve.protocol_fee = 0 => ClaimProtocolFeeOutcome.err = "NothingToClaim"
        /\ curve.creator_fee = 0 => ClaimCreatorFeeOutcome.err = "NothingToClaim"
        /\ curve.protocol_fee > 0 /\ curve'.protocol_fee = 0 =>
              last'.op = "claim_protocol_fee"
        /\ curve.creator_fee > 0 /\ curve'.creator_fee = 0 =>
              last'.op = "claim_creator_fee" ]_vars

(* C10: while less than 7 days have passed since the last successful       *)
(* claim_cashback, or since the creation of the account, claim_cashback    *)
(* fails with ClaimCooldownNotMet and changes neither                      *)
(* last_claim_timestamp nor the vault balance.                             *)
C10_ClaimCooldown ==
    ( /\ cashback.exists
      /\ \/ cb_last.claimed_at > 0 /\ now - cb_last.claimed_at < 604800
         \/ now - cb_last.created_at < 604800 )
    => /\ ClaimCashbackOutcome.err = "ClaimCooldownNotMet"
       /\ ClaimCashbackOutcome.cashback.last_claim_timestamp
            = cashback.last_claim_timestamp
       /\ ClaimCashbackOutcome.wsol_vault = wsol_vault

\* one second short of 7 days after a successful claim, with new cashback in the vault
C10_Witness ==
    /\ cashback.exists
    /\ cb_last.claimed_at > 0
    /\ now - cb_last.claimed_at = 604799
    /\ wsol_vault > 0
    /\ ClaimCashbackOutcome.err = "ClaimCooldownNotMet"

(* C11 (as amended): a claim_cashback with an empty vault always fails:   *)
(* with NoCashbackToClaim when 7 days have passed since                    *)
(* last_claim_timestamp, with ClaimCooldownNotMet before that; nothing is  *)
(* transferred and the account is unchanged.                               *)
C11_EmptyVaultClaimFails ==
    (cashback.exists /\ wsol_vault = 0) =>
        /\ ClaimCashbackOutcome.err =
              (IF now - cashback.last_claim_timestamp >= 604800
               THEN "NoCashbackToClaim" ELSE "ClaimCooldownNotMet")
        /\ ClaimCashbackOutcome.paid = 0
        /\ ClaimCashbackOutcome.cashback = cashback

\* an empty vault after a successful claim, once the cooldown has passed again
C11_Witness ==
    /\ cashback.exists /\ wsol_vault = 0
    /\ cb_last.claimed_at > 0
    /\ now - cb_last.claimed_at >= 604800
    /\ ClaimCashbackOutcome.err = "NoCashbackToClaim"

(* C11 as stated: a claim_cashback with an empty vault fails with          *)
(* NoCashbackToClaim in every state.                                       *)
C11_EmptyVaultAlwaysNoCashbackToClaim ==
    (cashback.exists /\ wsol_vault = 0) =>
        ClaimCashbackOutcome.err = "NoCashbackToClaim"

(* C12: a successful claim_cashback pays out the whole vault balance,      *)
(* leaves the vault empty and sets last_claim_timestamp = now; no other    *)
(* step on an existing account changes last_claim_timestamp, and it never  *)
(* decreases.                                                              *)
C12_ClaimPaysAllAndStamps ==
    [][ cashback.exists =>
          /\ cb_last'.claimed_at # cb_last.claimed_at =>
                /\ cb_last'.paid = wsol_vault
                /\ wsol_vault > 0
                /\ wsol_vault' = 0
                /\ cashback'.last_claim_timestamp = now
                /\ cb_last'.claimed_at = now
          /\ cashback'.last_claim_timestamp # cashback.last_claim_timestamp =>
                cb_last'.claimed_at # cb_last.claimed_at
          /\ cashback'.last_claim_timestamp >= cashback.last_claim_timestamp ]_vars

\* a claim that paid out two deposits and stamped the account
C12_Witness ==
    /\ cb_last.op = "claim_cashback"
    /\ cb_last.paid = 41
    /\ wsol_vault = 0
    /\ cashback.last_claim_timestamp = now
    /\ cb_last.claimed_at = now

(* C13: reclaim_inactive_cashback succeeds exactly when 365 days have      *)
(* passed since last_claim_timestamp and the vault is not empty;           *)
(* otherwise it ends with AccountNotInactive or (inactive, empty vault)    *)
(* NoCashbackToClaim and transfers nothing; on success it empties the      *)
(* vault, pays its whole balance and leaves the account as it is, and a    *)
(* claim_cashback on the emptied vault ends with NoCashbackToClaim.        *)
C13_InactivityReclaim ==
    cashback.exists =>
      /\ \A o \in {ReclaimCashbackOutcome} :
           /\ o.err = "Ok" <=>
                 (now - cashback.last_claim_timestamp >= 31536000 /\ wsol_vault > 0)
           /\ now - cashback.last_claim_timestamp < 31536000 =>
                 o.err = "AccountNotInactive"
           /\ (now - cashback.last_claim_timestamp >= 31536000 /\ wsol_vault = 0) =>
                 o.err = "NoCashbackToClaim"
           /\ o.err # "Ok" => (o.paid = 0 /\ o.wsol_vault = wsol_vault)
           /\ o.err = "Ok" => (o.paid = wsol_vault /\ o.wsol_vault = 0)
           /\ o.cashback = cashback
      /\ (cb_last.op = "reclaim_cashback" /\ wsol_vault = 0) =>
             ClaimCashbackOutcome.err = "NoCashbackToClaim"

\* a reclaim that took a positive balance; the vault is empty now
C13_Witness ==
    /\ cb_last.op = "reclaim_cashback"
    /\ cb_last.paid > 0
    /\ wsol_vault = 0
    /\ ClaimCashbackOutcome.err = "NoCashbackToClaim"

(* C14: whatever byte update_tier stores (0..255), get_tier answers with a  *)
(* tier and never with InvalidCashbackTier: the tier of that ordinal for   *)
(* 0..6 and Champion above 6; the cashback rate of the tier read is at     *)
(* most 250 bps.                                                           *)
C14_TierReadClamp ==
    /\ cashback.exists =>
          /\ get_tier(cashback.current_tier) # InvalidCashbackTier
          /\ get_cashback_bps(get_tier(cashback.current_tier)) <= 250
    /\ \A byte \in 0 .. 255 :
          \A t \in {get_tier(update_tier(cashback, byte).current_tier)} :
             /\ t # InvalidCashbackTier
             /\ t = (IF byte <= 6 THEN byte ELSE 6)
             /\ get_cashback_bps(t) <= 250
             /\ get_cashback_bps(t) = (IF byte > 6 THEN 250 ELSE get_cashback_bps(byte))

\* an account whose stored byte is above the table, read as Champion
C14_Witness ==
    /\ cashback.exists
    /\ cashback.current_tier = 200
    /\ get_tier(cashback.current_tier) = 6
    /\ get_cashback_bps(get_tier(cashback.current_tier)) = 250

(* C15: the fee-type state machine.  set_fee_type with the current fee     *)
(* type ends with FeeTypeAlreadySet; the calls that succeed are            *)
(* Creator -> Meme, Meme -> Creator and (Creator or Meme) -> Blocked; on a *)
(* Blocked curve every call fails (FeeTypeAlreadySet for Blocked,          *)
(* InvalidFeeType for Creator or Meme); a failed call changes nothing, and *)
(* no step takes a curve out of Blocked.                                   *)
C15_FeeTypeStateMachine ==
    [][ /\ \A raw \in (0 .. 3) \cup {255} :
             \A o \in {SetFeeTypeOutcome(raw)} :
                /\ raw = fee_type => o.err = "FeeTypeAlreadySet"
                /\ o.err = "Ok" =>
                      << fee_type, o.fee_type >> \in
                          { << 0, 1 >>, << 1, 0 >>, << 0, 2 >>, << 1, 2 >> }
                /\ o.err # "Ok" => (o.curve = curve /\ o.fee_type = fee_type)
                /\ fee_type = 2 =>
                      o.err = (IF raw = 2 THEN "FeeTypeAlreadySet" ELSE "InvalidFeeType")
        /\ fee_type = 2 => fee_type' = 2
        /\ fee_type' # fee_type =>
              << fee_type, fee_type' >> \in
                  { << 0, 1 >>, << 1, 0 >>, << 0, 2 >>, << 1, 2 >> } ]_vars

\* a curve blocked from Meme, on which every further call fails
C15_Witness ==
    /\ fee_type = 2
    /\ ft_last.calls = 2
    /\ ft_last.old_fee_type = 1
    /\ SetFeeTypeOutcome(0).err = "InvalidFeeType"
    /\ SetFeeTypeOutcome(1).err = "InvalidFeeType"
    /\ SetFeeTypeOutcome(2).err = "FeeTypeAlreadySet"

C17_BlockedCurveAccruesNoCreatorFee ==
    [][ (swaps' = swaps + 1 /\ fee_type = 2) =>
            curve'.creator_fee = curve.creator_fee ]_vars

\* the invariants the data model asks of a Config's fee rates (rates are out
\* of 100000, so 10% of a trade is 10000)
DataModelInvariants(p) ==
    /\ p.l1_referral_fee_basis_points > p.l2_referral_fee_basis_points
    /\ p.l2_referral_fee_basis_points > p.l3_referral_fee_basis_points
    /\ p.creator_fee_basis_points * 10 <= 100000
    /\ p.fee_basis_points >
          p.l1_referral_fee_basis_points + p.l2_referral_fee_basis_points
          + p.l3_referral_fee_basis_points + p.creator_fee_basis_points + 250

(* C18: validate returns Ok only for parameters with l1 > l2 > l3, a       *)
(* creator rate of at most 10% of a trade and fee_basis_points above       *)
(* l1 + l2 + l3 + creator + 250; create_config initialises a Config only   *)
(* from parameters validate accepted, so parameters that break one of the  *)
(* three are rejected and leave no Config.                                 *)
C18_ValidateEnforcesInvariants ==
    /\ config_state = "created" => DataModelInvariants(params)
    /\ config_state = "created" => validate(params) = "Ok"
    /\ (config_state # "none" /\ ~DataModelInvariants(params)) => config_state = "rejected"
    /\ \A creator \in {0, 1000, 1001, 10001}, l3 \in {0, 100, 300, 400},
          fee \in {250, 851, 1351, 10000, 10001, 30000} :
          \A p \in {[params EXCEPT !.creator_fee_basis_points = creator,
                                   !.l3_referral_fee_basis_points = l3,
                                   !.fee_basis_points = fee]} :
             validate(p) = "Ok" => DataModelInvariants(p)

\* a Config created from parameters that satisfy the invariants
C18_Witness ==
    /\ config_state = "created"
    /\ params.fee_basis_points = 2000
    /\ params.creator_fee_basis_points = 500
    /\ params.l2_referral_fee_basis_points = 300
    /\ DataModelInvariants(params)

(* C19: fee placement by direction.  A successful QuoteToBase swap takes   *)
(* the fee from the gross input (trading_fee is the fee on                 *)
(* actual_input_amount + trading_fee, the amount moved from the trader,    *)
(* which is amount_in unless the graduation cap cut it) and walks the      *)
(* curve with the net actual_input_amount; a successful BaseToQuote swap   *)
(* walks the curve with the whole amount_in and takes the fee from the     *)
(* gross quote output, output_amount being the net; in both directions     *)
(* trading_fee is the sum of the six fee components.                       *)
C19_FeePlacementByDirection ==
    \A amount_in \in {150, MaxAmountIn}, ref \in ReferralChoices,
       tier_byte \in TierBytes, trade_direction \in Directions :
      \A r \in {get_swap_result(curve, cfg, amount_in, trade_direction,
                                ref[1], ref[2], ref[3], SwapTier(tier_byte))},
         bps \in {IF ref[1] \/ ref[2] \/ ref[3]
                  THEN cfg.fee_basis_points - cfg.referee_discount_basis_points
                  ELSE cfg.fee_basis_points} :
        r.ok =>
          /\ r.trading_fee = r.protocol_fee + r.cashback_fee + r.creator_fee
                             + r.l1_referral_fee + r.l2_referral_fee + r.l3_referral_fee
          /\ trade_direction = QuoteToBase =>
               /\ r.actual_input_amount + r.trading_fee <= amount_in
               /\ ~r.capped => r.actual_input_amount + r.trading_fee = amount_in
               /\ r.trading_fee =
                     ((r.actual_input_amount + r.trading_fee) * bps) \div 100000
               /\ \A sa \in {get_swap_amount_from_quote_to_base(curve, cfg,
                                                                r.actual_input_amount)} :
                     /\ sa.ok
                     /\ r.output_amount = sa.output_amount
                     /\ r.next_sqrt_price = sa.next_sqrt_price
          /\ trade_direction = BaseToQuote =>
               /\ r.actual_input_amount = amount_in
               /\ \A sa \in {get_swap_amount_from_base_to_quote(curve, cfg, amount_in)} :
                     /\ sa.ok
                     /\ r.trading_fee = (sa.output_amount * bps) \div 100000
                     /\ r.output_amount = sa.output_amount - r.trading_fee
                     /\ r.next_sqrt_price = sa.next_sqrt_price
          /\ \A o \in {SwapOutcome(amount_in, 0, trade_direction,
                                   ref[1], ref[2], ref[3], tier_byte)} :
               o.err = "Ok" =>
                 /\ trade_direction = QuoteToBase =>
                       o.quote_vault = quote_vault + r.actual_input_amount + r.trading_fee
                                       - r.l1_referral_fee - r.l2_referral_fee
                                       - r.l3_referral_fee - r.cashback_fee
                 /\ trade_direction = BaseToQuote =>
                       /\ o.base_vault = base_vault + amount_in
                       /\ o.quote_vault = quote_vault - r.output_amount
                                          - r.l1_referral_fee - r.l2_referral_fee
                                          - r.l3_referral_fee - r.cashback_fee

\* a committed sell after a buy, with a fee on its quote output, from a state
\* where an uncapped buy with a fee can follow
C19_Witness ==
    /\ last.op = BaseToQuote
    /\ last.actual_input_amount = last.amount_in
    /\ last.trading_fee > 0 /\ last.output_amount > 0
    /\ \E r \in {get_swap_result(curve, cfg, 2000, QuoteToBase, FALSE, FALSE, FALSE, NoTier)} :
          r.ok /\ ~r.capped /\ r.trading_fee = 40 /\ r.actual_input_amount = 1960

(* C20: for a denominator above 0, safe_mul_div_cast_u64 returns           *)
(* floor(x * y / d) for Rounding::Down and ceil(x * y / d) for             *)
(* Rounding::Up whenever that value fits a u64, and TypeCastFailed when it *)
(* does not; with d = 0 it fails with MathOverflow.  Up exceeds Down by 1  *)
(* exactly when d does not divide x * y, and by 0 otherwise.  No returned  *)
(* value is a wrapped or truncated one.                                    *)
C20_MulDivExact ==
    md_args.called =>
      \A x \in {md_args.x}, y \in {md_args.y}, d \in {md_args.denominator} :
        /\ d = 0 => md_ret.err = "MathOverflow"
        /\ d > 0 =>
             \A exact \in {IF md_args.rounding = "Down" \/ (x * y) % d = 0
                           THEN (x * y) \div d ELSE (x * y) \div d + 1} :
                /\ exact <= U64_MAX => (md_ret.err = "Ok" /\ md_ret.value = exact)
                /\ exact > U64_MAX => md_ret.err = "TypeCastFailed"
                /\ md_ret.err = "Ok" =>
                      /\ md_ret.value * d >= x * y - (IF md_args.rounding = "Down" THEN d - 1 ELSE 0)
                      /\ md_ret.value * d <= x * y + (IF md_args.rounding = "Up" THEN d - 1 ELSE 0)
        /\ \A up \in {safe_mul_div_cast_u64(x, y, d, "Up")},
              down \in {safe_mul_div_cast_u64(x, y, d, "Down")} :
              (up.err = "Ok" /\ down.err = "Ok") =>
                 /\ up.value - down.value \in {0, 1}
                 /\ up.value = down.value <=> (x * y) % d = 0

\* a rounded-up quotient: ceil(3 * 3 / 2) = 5 where the floor is 4
C20_Witness ==
    /\ md_args.called
    /\ md_args.x = 3 /\ md_args.y = 3 /\ md_args.denominator = 2
    /\ md_args.rounding = "Up"
    /\ md_ret.err = "Ok" /\ md_ret.value = 5

(* C21: every SafeMath operation returns the exact mathematical result     *)
(* when the type can hold it and MathOverflow otherwise (overflow,         *)
(* underflow, division or remainder by zero, a shift amount of the bit     *)
(* width or more), never a wrapped value.                                  *)
C21_SafeMathExactOrOverflow ==
    sm_args.called =>
      \A op \in {sm_args.op}, a \in {sm_args.a}, v \in {sm_args.v} :
        \A exact \in {CASE op = "safe_add" -> a + v
                        [] op = "safe_sub" -> a - v
                        [] op = "safe_mul" -> a * v
                        [] op = "safe_div" -> IF v = 0 THEN 0 - 1 ELSE a \div v
                        [] op = "safe_rem" -> IF v = 0 THEN 0 - 1 ELSE a % v
                        [] op = "safe_shl" -> IF v >= WordBits THEN 0 - 1 ELSE a * 2 ^ v
                        [] OTHER -> IF v >= WordBits THEN 0 - 1 ELSE a \div 2 ^ v} :
           IF exact >= 0 /\ exact <= U64_MAX
           THEN sm_ret.err = "Ok" /\ sm_ret.value = exact
           ELSE sm_ret.err = "MathOverflow"

SwallowRule(c, b, fed, sa, capacity, full) ==
    fed > capacity =>
        /\ sa.ok <=> fed - capacity <= (c.migration_quote_threshold * 20) \div 100
        /\ ~sa.ok => sa.err = "SwapAmountIsOverAThreshold"
        /\ sa.ok => /\ sa.output_amount = full.output_amount
                    /\ sa.next_sqrt_price = LastBreakpoint(c, 1, b.sqrt_price)

(* C23: a QuoteToBase walk that exhausts the breakpoints with input left   *)
(* over succeeds iff the leftover is at most                               *)
(* floor(migration_quote_threshold * 20 / 100) and fails with              *)
(* SwapAmountIsOverAThreshold otherwise; when it succeeds the leftover     *)
(* adds no base output, the price is the last breakpoint, and              *)
(* get_swap_result reports the whole amount fed to the walk, leftover      *)
(* included, as actual_input_amount.                                       *)
C23_SwallowTolerance ==
    walk_ret.called =>
        \A capacity \in {QuoteCapacity(walk_args.config, 1, walk_args.curve.sqrt_price)} :
        \A full \in {get_swap_amount_from_quote_to_base(walk_args.curve,
                         walk_args.config, capacity)} :
        \A fb \in {BuyFeeBreakdown(walk_args.curve, walk_args.config,
                       walk_args.amount_in, FALSE, FALSE, FALSE, NoTier)} :
            /\ full.ok
            /\ SwallowRule(walk_args.config, walk_args.curve, walk_args.amount_in,
                           walk_ret.walk, capacity, full)
            /\ fb.ok =>
                  /\ SwallowRule(walk_args.config, walk_args.curve, fb.fee.amount,
                                 walk_ret.swap, capacity, full)
                  /\ walk_ret.swap.ok => walk_ret.swap.actual_input_amount = fb.fee.amount

\* the leftover is exactly the tolerance and the walk succeeds; the swap on the
\* same amount swallows a leftover too
C23_Witness ==
    /\ walk_ret.called
    /\ walk_ret.walk.ok
    /\ walk_args.amount_in
         = QuoteCapacity(walk_args.config, 1, walk_args.curve.sqrt_price)
           + get_max_swallow_quote_amount(walk_args.config)
    /\ walk_ret.swap.ok
    /\ walk_ret.swap.actual_input_amount
         > QuoteCapacity(walk_args.config, 1, walk_args.curve.sqrt_price)

Abs(x) == IF x < 0 THEN -x ELSE x

RoundTripDone ==
    /\ walk_ret.called
    /\ walk_ret.buy.result.ok
    /\ ~walk_ret.buy.result.capped
    /\ walk_ret.sell.result.ok

(* C24: after a QuoteToBase swap below the migration threshold and the     *)
(* BaseToQuote swap of the base amount received, base_reserve is back at   *)
(* its pre-trade value exactly, and sqrt_price and quote_reserve are at or *)
(* above their pre-trade values: the roundings of both legs and the fee of *)
(* the second stay in the pool.                                            *)
C24_RoundTripFavoursPool ==
    RoundTripDone =>
        /\ walk_ret.sell.curve.base_reserve = walk_args.curve.base_reserve
        /\ walk_ret.sell.curve.sqrt_price >= walk_args.curve.sqrt_price
        /\ walk_ret.sell.curve.quote_reserve >= walk_args.curve.quote_reserve

\* a round trip that leaves sqrt_price and quote_reserve more than one unit
\* per leg above their pre-trade values
C24_Witness ==
    /\ RoundTripDone
    /\ walk_ret.sell.curve.sqrt_price > walk_args.curve.sqrt_price + 2
    /\ walk_ret.sell.curve.quote_reserve > walk_args.curve.quote_reserve + 2

\* C24 as stated: base_reserve and sqrt_price return to their pre-trade values
\* up to one unit per leg, and so does quote_reserve at a fee rate of 0
C24_NearRoundTrip ==
    RoundTripDone =>
        /\ Abs(walk_ret.sell.curve.base_reserve - walk_args.curve.base_reserve) <= 2
        /\ Abs(walk_ret.sell.curve.sqrt_price - walk_args.curve.sqrt_price) <= 2
        /\ walk_args.config.fee_basis_points = 0 =>
              Abs(walk_ret.sell.curve.quote_reserve
                  - walk_args.curve.quote_reserve) <= 2

(* C25: an operation that returns an error leaves every field as it was;   *)
(* in particular apply_swap_result writes no field of the BondingCurve     *)
(* when one of its checked additions or subtractions fails.                *)
C25_FailedApplyWritesNothing ==
    (walk_ret.called /\ walk_ret.applied.err # "Ok") =>
        walk_ret.applied.curve = walk_args.curve

(* C26: with fee_basis_points = 100 and creator_fee_basis_points = 20, no  *)
(* referral and no cashback account, get_fee_on_amount(1,000,000) returns  *)
(* a total fee of 1,000, creator_fee 200, protocol_fee 800, referral and   *)
(* cashback fees 0 and the net amount 999,000.                             *)
C26_ReferenceFeeVector ==
    (walk_ret.called /\ walk_args.amount_in = ReferenceAmount) =>
        /\ walk_ret.fee.ok
        /\ FeeSum(walk_ret.fee) = 1000
        /\ walk_ret.fee.creator_fee = 200
        /\ walk_ret.fee.protocol_fee = 800
        /\ walk_ret.fee.l1_referral_fee = 0
        /\ walk_ret.fee.l2_referral_fee = 0
        /\ walk_ret.fee.l3_referral_fee = 0
        /\ walk_ret.fee.cashback_fee = 0
        /\ walk_ret.fee.amount = 999000

\* the call on the reference amount, on a Config with referral rates and a
\* referee discount
C26_Witness ==
    /\ walk_ret.called
    /\ walk_args.amount_in = ReferenceAmount
    /\ walk_args.config.l1_referral_fee_basis_points > 0
    /\ walk_args.config.referee_discount_basis_points > 0
    /\ walk_ret.fee.ok

(* C27: handle_swap fails with ExceededSlippage exactly when the output    *)
(* computed by get_swap_result, net of fees and after the graduation cap,  *)
(* is below minimum_amount_out; the failure leaves the curve and both      *)
(* vaults as they were, and a swap that succeeds pays the trader the       *)
(* computed output, which is at least minimum_amount_out.                  *)
C27_SlippageGuard ==
    walk_ret.called =>
        /\ walk_ret.err = "ExceededSlippage"
              <=> (walk_ret.result.ok
                   /\ walk_ret.result.output_amount < walk_args.minimum_amount_out)
        /\ walk_ret.err = "ExceededSlippage" =>
              /\ walk_ret.curve = walk_args.curve
              /\ walk_ret.base_vault = walk_args.base_vault
              /\ walk_ret.quote_vault = walk_args.quote_vault
        /\ walk_ret.err = "Ok" =>
              /\ walk_ret.result.output_amount >= walk_args.minimum_amount_out
              /\ walk_args.trade_direction = QuoteToBase =>
                    walk_args.base_vault - walk_ret.base_vault
                        = walk_ret.result.output_amount
              /\ walk_args.trade_direction = BaseToQuote =>
                    walk_args.quote_vault - walk_ret.quote_vault
                        = walk_ret.result.output_amount

\* a swap that fails with a minimum one above its output, after a swap that
\* succeeded
C27_Witness ==
    /\ walk_ret.called
    /\ swaps > 0
    /\ walk_ret.err = "ExceededSlippage"
    /\ walk_ret.result.output_amount > 0
    /\ walk_args.minimum_amount_out = walk_ret.result.output_amount + 1

(* C28: create_locker succeeds only with migration_status =                *)
(* PostBondingCurve and migrate_damm_v2 only with migration_status =       *)
(* LockedVesting on a complete curve; otherwise they fail with             *)
(* NotPermitToDoThisAction, respectively PoolIsIncompleted, and leave the  *)
(* curve as it was.  Each one moves the status past its own guard, so it   *)
(* cannot succeed twice; CreatedPool is reached only after graduation, and *)
(* is_migrated = 1 exactly when migration_status = CreatedPool.            *)
C28_MigrationLifecycleGuards ==
    /\ \A o \in {CreateLockerOutcome} :
          /\ o.err = "Ok" => /\ curve.migration_status = PostBondingCurve
                             /\ o.curve.migration_status = LockedVesting
          /\ curve.migration_status # PostBondingCurve =>
                (o.err = "NotPermitToDoThisAction" /\ o.curve = curve)
    /\ \A o \in {MigrateOutcome} :
          /\ o.err = "Ok" =>
                /\ curve.migration_status = LockedVesting
                /\ curve.quote_reserve >= cfg.migration_quote_threshold
                /\ o.curve.migration_status = CreatedPool
          /\ curve.migration_status # LockedVesting =>
                (o.err = "NotPermitToDoThisAction" /\ o.curve = curve)
          /\ (curve.migration_status = LockedVesting
              /\ curve.quote_reserve < cfg.migration_quote_threshold) =>
                (o.err = "PoolIsIncompleted" /\ o.curve = curve)
    /\ curve.is_migrated = 1 <=> curve.migration_status = CreatedPool
    /\ curve.migration_status = CreatedPool =>
          /\ curve.quote_reserve >= cfg.migration_quote_threshold
          /\ curve.curve_finish_timestamp > 0

\* a curve with a vesting schedule right after its migration: the locker and
\* the migration have both run, and neither can run again
C28_Witness ==
    /\ last.op = "migrate_damm_v2"
    /\ has_vesting(cfg)
    /\ curve.migration_status = CreatedPool
    /\ curve.is_migrated = 1
    /\ CreateLockerOutcome.err = "NotPermitToDoThisAction"
    /\ MigrateOutcome.err = "NotPermitToDoThisAction"

(* C29: the QuoteToBase walk ends at the first breakpoint with a zero      *)
(* sqrt_price or a zero liquidity and the BaseToQuote walk skips such      *)
(* breakpoints: whatever the unconfigured slots of the curve array hold,   *)
(* both walks return what they return on the array with these slots        *)
(* zero-filled, and no walk ends above the last configured breakpoint.     *)
C29_UnconfiguredBreakpoints ==
    walk_ret.called =>
        \A zeroed \in {[walk_args.config EXCEPT
                           !.curve = << @[1], @[2], NoPoint, NoPoint >>]} :
            /\ walk_ret.buy = get_swap_amount_from_quote_to_base(walk_args.curve,
                                  zeroed, walk_args.amount_in)
            /\ walk_ret.sell = get_swap_amount_from_base_to_quote(walk_args.curve,
                                   zeroed, walk_args.amount_in)
            /\ walk_ret.buy.ok =>
                  walk_ret.buy.next_sqrt_price <= walk_args.config.curve[2].sqrt_price
            /\ walk_ret.sell.ok =>
                  walk_ret.sell.next_sqrt_price <= walk_args.curve.sqrt_price

\* a buy that exhausts the two configured breakpoints, on an array with a
\* configured slot behind a zero slot
C29_Witness ==
    /\ walk_ret.called
    /\ walk_args.config.curve[3] = NoPoint
    /\ walk_args.config.curve[4].liquidity > 0
    /\ walk_ret.buy.ok
    /\ walk_ret.buy.next_sqrt_price = walk_args.config.curve[2].sqrt_price
    /\ walk_args.amount_in
         > QuoteCapacity(walk_args.config, 1, walk_args.curve.sqrt_price)
    /\ walk_ret.sell.ok

(* C30: in every state reachable by buys, sells and fee claims the accrued *)
(* fees do not exceed the quote reserve, quote_reserve >= creator_fee +    *)
(* protocol_fee, so the graduation check of a QuoteToBase swap never fails *)
(* with MathOverflow.                                                      *)
C30_AccruedFeesWithinReserve ==
    curve.quote_reserve >= curve.creator_fee + curve.protocol_fee

(* C31: for every Config accepted by validate and in every state between  *)
(* instructions, quote_reserve >= migration_quote_threshold holds exactly  *)
(* when migration_status is not PreBondingCurve: no curve is complete, its *)
(* swaps rejected with PoolIsCompleted, while still in PreBondingCurve.    *)
C31_CompletionAgreesWithStatus ==
    is_curve_complete(curve, cfg.migration_quote_threshold)
        <=> curve.migration_status # PreBondingCurve

(* C32: in every reachable state, in every lifecycle phase including       *)
(* CreatedPool, the quote vault holds at least protocol_fee + creator_fee, *)
(* so an accrued creator_fee can be paid out by claim_creator_fee whatever *)
(* the order of the two claims.                                            *)
C32_FeesBackedByVault ==
    /\ quote_vault >= curve.protocol_fee + curve.creator_fee
    /\ curve.creator_fee > 0 => ClaimCreatorFeeOutcome.err = "Ok"

(* C33: in every reachable state where the curve is complete and not yet  *)
(* migrated, after any interleaving of buys, sells and fee claims, the     *)
(* quote vault less the unclaimed protocol_fee and creator_fee holds at    *)
(* least the migration quote amount that migrate_damm_v2 deposits.         *)
C33_MigrationFunded ==
    ( /\ is_curve_complete(curve, cfg.migration_quote_threshold)
      /\ curve.is_migrated = 0 )
    => quote_vault - curve.protocol_fee - curve.creator_fee
           >= get_migration_quote_amount(cfg)

\* amounts around the gross amount at which the graduation cap sets in
CapProbeAmounts(has_referral) ==
    LET cap == CappedAmountIn(CappedAmountInBeforeFees(curve, cfg),
                              EffectiveBps(cfg, has_referral))
    IN  {a \in (cap - 2) .. (cap + 2) : a > 0} \cup {1, 150, MaxAmountIn}

\* what a QuoteToBase swap takes from the trader
Charged(r) == r.actual_input_amount + r.trading_fee

(* C34: for every successful QuoteToBase swap, capped or not, the amount   *)
(* taken from the trader, actual_input_amount + trading_fee, is at most    *)
(* the requested amount_in, and it equals amount_in whenever the           *)
(* graduation cap did not apply.                                           *)
C34_ChargedAtMostRequested ==
    /\ last.op = QuoteToBase =>
          /\ Charged(last) <= last.amount_in
          /\ ~last.capped => Charged(last) = last.amount_in
    /\ \A acc \in TradeAccounts :
         \A amount_in \in CapProbeAmounts(HasReferral(acc[1], acc[2], acc[3])) :
           \A o \in {SwapOutcome(amount_in, 0, QuoteToBase, acc[1], acc[2], acc[3],
                                 acc[4])} :
              o.err = "Ok" =>
                 /\ Charged(o.result) <= amount_in
                 /\ ~o.result.capped => Charged(o.result) = amount_in

\* a second buy that was capped and took less than the trader offered
C34_Witness ==
    /\ last.op = QuoteToBase
    /\ last.capped
    /\ swaps = 2
    /\ Charged(last) < last.amount_in
    /\ Charged(last) > 0

\* the quote amount the trader holds after the two swaps, less what they held
\* before: the net output of the sell and the cashback of both legs come in,
\* the charge of the buy goes out
TraderGain ==
    walk_ret.sell.result.output_amount + walk_ret.buy.result.cashback_fee
    + walk_ret.sell.result.cashback_fee - Charged(walk_ret.buy.result)

(* C35: from a pre-graduation state and for every amount, a QuoteToBase    *)
(* swap followed at once by the BaseToQuote swap of exactly the base       *)
(* received pays the trader, cashback included, no more quote than they    *)
(* paid in; the walks alone give no gain either: the gross output of the   *)
(* sell is at most the net amount the buy fed to the curve.                *)
C35_NoGainFromRoundTrip ==
    (walk_ret.called /\ walk_ret.buy.result.ok /\ walk_ret.sell.result.ok)
        => /\ TraderGain <= 0
           /\ walk_ret.sell.result.output_amount + walk_ret.sell.result.trading_fee
                <= walk_ret.buy.result.actual_input_amount

\* a round trip across the first breakpoint with cashback on both legs
C35_Witness ==
    /\ walk_ret.called
    /\ walk_ret.buy.result.ok
    /\ walk_ret.sell.result.ok
    /\ walk_args.amount_in = 2500
    /\ walk_args.curve.sqrt_price < walk_args.config.curve[1].sqrt_price
    /\ walk_ret.buy.result.next_sqrt_price > walk_args.config.curve[1].sqrt_price
    /\ walk_ret.buy.result.cashback_fee > 0
    /\ walk_ret.sell.result.cashback_fee > 0
    /\ walk_ret.sell.result.output_amount > 2000

\* positive amounts up to the base bought from the curve and not yet sold back
ExitAmounts ==
    {a \in {1, 150, Circulating \div 2, Circulating - 1, Circulating} :
        a > 0 /\ a <= Circulating}

(* C36: in every reachable state with quote_reserve below the threshold, a *)
(* BaseToQuote swap of any positive amount up to the base bought from the  *)
(* curve and still outstanding succeeds with minimum_amount_out = 0: the   *)
(* subtraction of the output from quote_reserve does not underflow and the *)
(* walk does not take sqrt_price below the Config's initial_sqrt_price.    *)
C36_HoldersCanExit ==
    curve.quote_reserve < cfg.migration_quote_threshold =>
        \A acc \in TradeAccounts, amount_in \in ExitAmounts :
           \A o \in {SwapOutcome(amount_in, 0, BaseToQuote, acc[1], acc[2], acc[3],
                                 acc[4])} :
              /\ o.err = "Ok"
              /\ ~ApplyUnderflows(curve, o.result, BaseToQuote)
              /\ o.curve.sqrt_price >= cfg.initial_sqrt_price
              /\ o.result.next_sqrt_price >= cfg.initial_sqrt_price

\* after a buy, a partial sell and the claim of a fee, everything outstanding
\* can still be sold
C36_Witness ==
    /\ curve.quote_reserve < cfg.migration_quote_threshold
    /\ swaps = 2
    /\ Circulating > 150
    /\ last.op = "claim_protocol_fee"
    /\ SwapOutcome(Circulating, 0, BaseToQuote, FALSE, FALSE, FALSE, NoTier).err = "Ok"

(* C37: every successful QuoteToBase swap leaves sqrt_price at or above    *)
(* its previous value and base_reserve at or below, every successful       *)
(* BaseToQuote swap leaves sqrt_price at or below and base_reserve at or   *)
(* above, and no operation other than a swap changes sqrt_price,           *)
(* base_reserve or quote_reserve.                                          *)
C37_PriceFollowsDirection ==
    [][ /\ last'.op = QuoteToBase =>
              /\ curve'.sqrt_price >= curve.sqrt_price
              /\ curve'.base_reserve <= curve.base_reserve
        /\ last'.op = BaseToQuote =>
              /\ curve'.sqrt_price <= curve.sqrt_price
              /\ curve'.base_reserve >= curve.base_reserve
        /\ last'.op \notin {QuoteToBase, BaseToQuote} =>
              /\ curve'.sqrt_price = curve.sqrt_price
              /\ curve'.base_reserve = curve.base_reserve
              /\ curve'.quote_reserve = curve.quote_reserve ]_vars

\* a partial sell after a buy: the price is down from where the buy left it and
\* still above the initial price, and part of the base is back
C37_Witness ==
    /\ last.op = BaseToQuote
    /\ last.amount_in = 150
    /\ swaps = 2
    /\ curve.sqrt_price > cfg.initial_sqrt_price
    /\ curve.base_reserve < InitialBaseSupply
    /\ curve.base_reserve > InitialBaseSupply - 1500

\* the swap r is accepted up to apply_swap_result and leaves the curve complete
WouldGraduate(r) ==
    /\ ~is_curve_complete(curve, cfg.migration_quote_threshold)
    /\ r.ok
    /\ ~ApplyUnderflows(curve, r, QuoteToBase)
    /\ is_curve_complete(apply_swap_result(curve, r, QuoteToBase),
                         cfg.migration_quote_threshold)

(* C38: in every reachable state with migration_status = PreBondingCurve   *)
(* base_reserve equals the balance of the base vault, so the check of the  *)
(* base vault against migration_base_threshold at graduation is a check of *)
(* base_reserve: a swap that would complete the curve with less base than  *)
(* the threshold fails with InsufficientLiquidityForMigration and leaves   *)
(* the curve and the vaults unchanged, and one with enough base graduates. *)
C38_BaseReserveIsVault ==
    /\ curve.migration_status = PreBondingCurve => curve.base_reserve = base_vault
    /\ \A acc \in TradeAccounts, amount_in \in TradeBuyAmounts :
         \A r \in {get_swap_result(curve, cfg, amount_in, QuoteToBase, acc[1], acc[2],
                                   acc[3], SwapTier(acc[4]))},
            o \in {SwapOutcome(amount_in, 0, QuoteToBase, acc[1], acc[2], acc[3],
                               acc[4])} :
            WouldGraduate(r) =>
               IF curve.base_reserve - r.output_amount < cfg.migration_base_threshold
               THEN /\ o.err = "InsufficientLiquidityForMigration"
                    /\ o.curve = curve
                    /\ o.base_vault = base_vault
                    /\ o.quote_vault = quote_vault
               ELSE /\ o.err = "Ok"
                    /\ o.curve.migration_status # PreBondingCurve
                    /\ o.curve.base_reserve = o.base_vault

\* after a buy and a partial sell on the Config with the high base threshold,
\* the buy that would complete the curve is refused
C38_Witness ==
    /\ cfg = ScarceBaseConfig
    /\ swaps = 2
    /\ last.op = BaseToQuote
    /\ curve.base_reserve = base_vault
    /\ base_vault < InitialBaseSupply
    /\ SwapOutcome(MaxAmountIn, 0, QuoteToBase, FALSE, FALSE, FALSE, NoTier).err
         = "InsufficientLiquidityForMigration"

====
